---- MODULE Spec2Model ----
(***************************************************************************)
(* Exeventis: event capture and replay of aggregates (aggregate.py,        *)
(* reconstructor.py) and the coordination of recorders                     *)
(* (recorder_store.py, application.py).                                    *)
(***************************************************************************)
EXTENDS Integers, Sequences, FiniteSets, TLC

\* ---------------------------------------------------------------- bounds
MaxOps == 3
MaxTime == 2
MaxIds == 2
MaxCap == 4
MaxAdds == 5
MaxEvents == 2
MaxCallers == 2

\* The default of the timestamp parameter of Account.add / Account.subtract:
\* datetime.now() evaluated once, when the class body is executed.
ImportTime == 1

Times == 1..MaxTime
\* the amounts a caller passes
Amounts == {1}
Ids == 1..MaxIds

\* ------------------------------------------------------------- aggregates
\* An aggregate is [cls, d]: its runtime class and its __dict__, a function
\* whose domain is the set of attributes that have been assigned.
Classes == {"Account", "PlainAccount"}

NoAggregate == [cls |-> "None"]

SetAttr(d, k, v) == (k :> v) @@ d

DelKey(kw, k) == [x \in DOMAIN kw \ {k} |-> kw[x]]

\* A class statement, as AggregateMeta.__new__ receives it: the class object
\* cls it creates, the name and __qualname__ of the statement and the names of
\* the @event methods of its body.  Account is tests/utils.py's Account
\* (constructor decorated with "creation"), PlainAccount is the second
\* Account of tests/aggregate_test.py (plain constructor); both statements
\* read `class Account(Aggregate)` at module level.
ClassStatement(cls) ==
    [cls |-> cls, name |-> "Account", qualname |-> "Account",
     event_methods |-> IF cls = "Account" THEN {"creation", "add", "subtract"}
                                          ELSE {"deposit", "withdraw"}]

\* the two dictionaries before any class statement but Aggregate's own
NoRegistry == [event_function_registry |-> <<>>, class_registry |-> <<>>]

\* AggregateMeta.__new__(mcs, name, bases, namespace): the entry under the
\* name of the statement is replaced
AggregateMeta_new(reg, stmt) ==
    IF stmt.name = "Aggregate" THEN reg
    ELSE [event_function_registry |->
              (stmt.name :> stmt.event_methods) @@ reg.event_function_registry,
          class_registry |->
              (stmt.qualname :> stmt.cls) @@ reg.class_registry]

\* the orders in which the two modules of the fixtures are imported
ImportOrders == {<<"Account", "PlainAccount">>, <<"PlainAccount", "Account">>}

RECURSIVE Registered(_)
Registered(order) ==
    IF order = <<>> THEN NoRegistry
    ELSE AggregateMeta_new(Registered(SubSeq(order, 1, Len(order) - 1)),
                           ClassStatement(order[Len(order)]))

\* AggregateMeta's two class-level dictionaries, as the class statements
\* executed so far have left them
VARIABLE registry

\* what the two dictionaries may hold once both modules are imported
Registries == {Registered(order) : order \in ImportOrders}

\* AggregateMeta._event_function_registry: class name -> event names
event_function_registry == registry.event_function_registry

\* AggregateMeta._class_registry: __qualname__ -> class
class_registry == registry.class_registry

\* method.__qualname__ without its last component, for a method of cls
Qualname(cls) == ClassStatement(cls).qualname

\* The __init__ a class is defined with: the event wrapper of "creation" for
\* Account, an undecorated function for PlainAccount.
OriginalInit(cls) == IF cls = "Account" THEN "wrapper" ELSE "plain"

\* The arguments a caller gives the declared constructor, bound by name.
CtorArgs(cls) ==
    IF cls = "Account" THEN [name |-> "test"] ELSE <<>>

\* The undecorated methods (wrapper._original_func), applied to __dict__ d
\* with keyword arguments kw: [ok, d]; ok = FALSE when the call raises
\* (TypeError on a signature mismatch, AttributeError on a missing balance).
original_func(type_, name, d, kw) ==
    CASE name = "creation" ->
           IF DOMAIN kw = {"name"}
           THEN [ok |-> TRUE,
                 d |-> SetAttr(SetAttr(d, "name", kw.name), "balance", 0)]
           ELSE [ok |-> FALSE, d |-> d]
      [] name \in {"add", "subtract"} ->
           IF /\ "amount" \in DOMAIN kw
              /\ DOMAIN kw \subseteq {"amount", "timestamp"}
              /\ "balance" \in DOMAIN d
           THEN [ok |-> TRUE,
                 d |-> SetAttr(d, "balance",
                         IF name = "add" THEN d.balance + kw.amount
                                         ELSE d.balance - kw.amount)]
           ELSE [ok |-> FALSE, d |-> d]
      [] name \in {"deposit", "withdraw"} ->
           IF DOMAIN kw = {"amount"} /\ "balance" \in DOMAIN d
           THEN [ok |-> TRUE,
                 d |-> SetAttr(d, "balance",
                         IF name = "deposit" THEN d.balance + kw.amount
                                             ELSE d.balance - kw.amount)]
           ELSE [ok |-> FALSE, d |-> d]
      [] OTHER -> [ok |-> FALSE, d |-> d]

\* PlainAccount.__init__(self, balance=0)
plain_init(d, kw) ==
    IF DOMAIN kw \subseteq {"balance"}
    THEN [ok |-> TRUE,
          d |-> SetAttr(d, "balance",
                        IF "balance" \in DOMAIN kw THEN kw.balance ELSE 0)]
    ELSE [ok |-> FALSE, d |-> d]

Event(name, type_, timestamp, originator_id, event_kwargs, version) ==
    [name |-> name, type_ |-> type_, timestamp |-> timestamp,
     originator_id |-> originator_id, event_kwargs |-> event_kwargs,
     version |-> version]

\* wrapper without self._version += 1
wrapper_no_increment(type_, event_name, d, arg_dict, now) ==
    LET timestamp == IF "timestamp" \in DOMAIN arg_dict
                     THEN arg_dict.timestamp ELSE now
        kw == DelKey(arg_dict, "timestamp")
        d2 == SetAttr(d, "_last_update_date", timestamp)
        new_event == Event(event_name, type_, timestamp, d._id, kw, d._version)
        d3 == SetAttr(d2, "_unsaved_event_list",
                      Append(d._unsaved_event_list, new_event))
    IN  original_func(type_, event_name, d3, arg_dict)

\* wrapper that runs the method body first and records the event only when
\* the body returned
wrapper_body_first(type_, event_name, d, arg_dict, now) ==
    LET timestamp == IF "timestamp" \in DOMAIN arg_dict
                     THEN arg_dict.timestamp ELSE now
        kw == DelKey(arg_dict, "timestamp")
        r == original_func(type_, event_name, d, arg_dict)
        d1 == SetAttr(r.d, "_version", d._version + 1)
        d2 == SetAttr(d1, "_last_update_date", timestamp)
        new_event == Event(event_name, type_, timestamp, d._id, kw, d1._version)
        d3 == SetAttr(d2, "_unsaved_event_list",
                      Append(d._unsaved_event_list, new_event))
    IN  IF r.ok THEN [ok |-> TRUE, d |-> d3] ELSE r

\* wrapper without arg_dict.pop("timestamp"): the payload keeps the timestamp
wrapper_keep_timestamp(type_, event_name, d, arg_dict, now) ==
    LET timestamp == IF "timestamp" \in DOMAIN arg_dict
                     THEN arg_dict.timestamp ELSE now
        d1 == SetAttr(d, "_version", d._version + 1)
        d2 == SetAttr(d1, "_last_update_date", timestamp)
        new_event == Event(event_name, type_, timestamp, d._id, arg_dict, d1._version)
        d3 == SetAttr(d2, "_unsaved_event_list",
                      Append(d._unsaved_event_list, new_event))
    IN  original_func(type_, event_name, d3, arg_dict)

\* event.<locals>.wrapper with the isinstance check passed: arg_dict is the
\* bound arguments with defaults applied and self removed, now is what
\* datetime.now() returns.  [ok, d]: d is __dict__ after the call, ok = FALSE
\* when the method body raised.
wrapper(type_, event_name, d, arg_dict, now) ==
    LET timestamp == IF "timestamp" \in DOMAIN arg_dict
                     THEN arg_dict.timestamp ELSE now
        kw == DelKey(arg_dict, "timestamp")
        d1 == SetAttr(d, "_version", d._version + 1)
        d2 == SetAttr(d1, "_last_update_date", timestamp)
        new_event == Event(event_name, type_, timestamp, d._id, kw, d1._version)
        d3 == SetAttr(d2, "_unsaved_event_list",
                      Append(d._unsaved_event_list, new_event))
    IN  original_func(type_, event_name, d3, arg_dict)

\* isinstance(self, Aggregate): self is [cls, d], an instance of one of the
\* aggregate classes or of another class ("object")
IsAggregateInstance(self) == self.cls \in Classes

\* wrapper without the isinstance check
wrapper_unchecked(self, type_, event_name, arg_dict, now) ==
    LET r == wrapper(type_, event_name, self.d, arg_dict, now)
    IN  [error |-> IF r.ok THEN "None" ELSE "Exception",
         self |-> [self EXCEPT !.d = r.d]]

\* event.<locals>.wrapper called on any receiver (Account.add(obj, ...)):
\* [error, self], self the receiver after the call
wrapper_checked(self, type_, event_name, arg_dict, now) ==
    IF ~IsAggregateInstance(self)
    THEN [error |-> "NotAnAggregateError", self |-> self]
    ELSE LET r == wrapper(type_, event_name, self.d, arg_dict, now)
         IN  [error |-> IF r.ok THEN "None" ELSE "Exception",
              self |-> [self EXCEPT !.d = r.d]]

\* AggregateMeta.__call__(cls, **kw) with init the function currently
\* installed as cls.__init__ ("wrapper", "plain", or the name of an
\* undecorated method left there by Event.mutate) and id what uuid4() returns.
AggregateMeta_call(cls, init, kw, id, now) ==
    LET d0 == [_unsaved_event_list |-> <<>>, _version |-> 0, _id |-> id]
        r  == CASE init = "wrapper" -> wrapper(Qualname(cls), "creation", d0, kw, now)
                [] init = "plain"   -> plain_init(d0, kw)
                [] OTHER            -> original_func(cls, init, d0, kw)
    IN  [ok |-> r.ok, aggregate |-> [cls |-> cls, d |-> r.d]]

\* collect that clears the buffer and starts the version again at 0
collect_reset_version(d) ==
    [output |-> d._unsaved_event_list,
     d |-> SetAttr(SetAttr(d, "_unsaved_event_list", <<>>), "_version", 0)]

\* collect that returns the buffer and does not clear it
collect_no_clear(d) == [output |-> d._unsaved_event_list, d |-> d]

\* Aggregate.collect: [output, d]
collect(d) ==
    [output |-> d._unsaved_event_list,
     d |-> SetAttr(d, "_unsaved_event_list", <<>>)]

\* Aggregate.__eq__ (no subclasses here: isinstance is class equality)
Aggregate_eq(self, other) ==
    /\ self.cls # "None" /\ other.cls # "None"
    /\ other.cls = self.cls
    /\ self.d = other.d

\* ------------------------------------------------------------------ replay
\* mutate that constructs through the __init__ the class has, without
\* putting the registered function in its place
mutate_no_swap(ev, aggregate, class_init) ==
    IF \/ ev.type_ \notin DOMAIN event_function_registry
       \/ ev.name \notin event_function_registry[ev.type_]
    THEN [ok |-> FALSE, aggregate |-> aggregate, class_init |-> class_init]
    ELSE IF aggregate.cls # "None"
    THEN LET r == original_func(ev.type_, ev.name, aggregate.d, ev.event_kwargs)
         IN  IF r.ok
             THEN [ok |-> TRUE,
                   aggregate |-> [cls |-> aggregate.cls,
                                  d |-> SetAttr(r.d, "_version", ev.version)],
                   class_init |-> class_init]
             ELSE [ok |-> FALSE, aggregate |-> aggregate,
                   class_init |-> class_init]
    ELSE IF ev.type_ \notin DOMAIN class_registry
    THEN [ok |-> FALSE, aggregate |-> aggregate, class_init |-> class_init]
    ELSE LET aggregate_class == class_registry[ev.type_]
             r == AggregateMeta_call(aggregate_class, class_init[aggregate_class],
                                     ev.event_kwargs, ev.originator_id, ImportTime)
         IN  IF r.ok
             THEN [ok |-> TRUE,
                   aggregate |->
                     [cls |-> aggregate_class,
                      d |-> SetAttr(SetAttr(r.aggregate.d, "_id", ev.originator_id),
                                    "_version", ev.version)],
                   class_init |-> class_init]
             ELSE [ok |-> FALSE, aggregate |-> aggregate, class_init |-> class_init]

\* Event.mutate(aggregate) with class_init the __init__ installed per class:
\* [ok, aggregate, class_init].  ok = FALSE when the call raises (KeyError on
\* a type or name the registries do not hold, or what the function raises);
\* __init__ is restored only on the path that does not raise.
mutate(ev, aggregate, class_init) ==
    IF \/ ev.type_ \notin DOMAIN event_function_registry
       \/ ev.name \notin event_function_registry[ev.type_]
    THEN [ok |-> FALSE, aggregate |-> aggregate, class_init |-> class_init]
    ELSE IF aggregate.cls # "None"
    THEN LET r == original_func(ev.type_, ev.name, aggregate.d, ev.event_kwargs)
         IN  IF r.ok
             THEN [ok |-> TRUE,
                   aggregate |-> [cls |-> aggregate.cls,
                                  d |-> SetAttr(r.d, "_version", ev.version)],
                   class_init |-> class_init]
             ELSE [ok |-> FALSE, aggregate |-> aggregate,
                   class_init |-> class_init]
    ELSE IF ev.type_ \notin DOMAIN class_registry
    THEN [ok |-> FALSE, aggregate |-> aggregate, class_init |-> class_init]
    ELSE LET aggregate_class == class_registry[ev.type_]
             original_init == class_init[aggregate_class]
             swapped == [class_init EXCEPT ![aggregate_class] = ev.name]
             \* the uuid4() of __call__ is overwritten by originator_id
             r == AggregateMeta_call(aggregate_class, ev.name, ev.event_kwargs,
                                     ev.originator_id, ImportTime)
         IN  IF r.ok
             THEN [ok |-> TRUE,
                   aggregate |->
                     [cls |-> aggregate_class,
                      d |-> SetAttr(SetAttr(r.aggregate.d, "_id", ev.originator_id),
                                    "_version", ev.version)],
                   class_init |-> [swapped EXCEPT ![aggregate_class] = original_init]]
             ELSE [ok |-> FALSE, aggregate |-> aggregate, class_init |-> swapped]

Priorities == {"version", "timestamp"}

\* Priority.get_key(Event)
get_key_event(priority, x) ==
    IF priority = "version" THEN <<x.version, x.timestamp>>
                            ELSE <<x.timestamp, x.version>>

\* tuple comparison a <= b
TupleLeq(a, b) == a[1] < b[1] \/ (a[1] = b[1] /\ a[2] <= b[2])

\* list.sort(key=...): stable
RECURSIVE InsertSorted(_, _, _)
InsertSorted(sorted, x, priority) ==
    IF sorted = <<>> THEN <<x>>
    ELSE LET last == sorted[Len(sorted)]
         IN  IF TupleLeq(get_key_event(priority, last), get_key_event(priority, x))
             THEN Append(sorted, x)
             ELSE Append(InsertSorted(SubSeq(sorted, 1, Len(sorted) - 1), x, priority),
                         last)

\* reconstruct without the sort: the list is taken as it comes
SortEvents_unsorted(list_event, priority) == list_event

RECURSIVE SortEvents(_, _)
SortEvents(list_event, priority) ==
    IF list_event = <<>> THEN <<>>
    ELSE InsertSorted(SortEvents(SubSeq(list_event, 1, Len(list_event) - 1), priority),
                      list_event[Len(list_event)], priority)

\* Reconstructor.__init__(priority=Priority.version), unchanged by
\* StandartReconstructor
DefaultPriority == "version"

\* the loop without the except clause's raise: a failing event is skipped
RECURSIVE MutateAll_skip(_, _, _, _)
MutateAll_skip(events, i, aggregate, class_init) ==
    IF i > Len(events)
    THEN [ok |-> TRUE, aggregate |-> aggregate, class_init |-> class_init]
    ELSE LET r == mutate(events[i], aggregate, class_init)
         IN  IF r.ok THEN MutateAll_skip(events, i + 1, r.aggregate, r.class_init)
                     ELSE MutateAll_skip(events, i + 1, aggregate, r.class_init)

RECURSIVE MutateAll(_, _, _, _)
MutateAll(events, i, aggregate, class_init) ==
    IF i > Len(events)
    THEN [ok |-> TRUE, aggregate |-> aggregate, class_init |-> class_init]
    ELSE LET r == mutate(events[i], aggregate, class_init)
         IN  IF r.ok THEN MutateAll(events, i + 1, r.aggregate, r.class_init)
                     ELSE [ok |-> FALSE, aggregate |-> NoAggregate,
                           class_init |-> r.class_init]

\* StandartReconstructor.reconstruct(list_event, aggregate, priority):
\* [ok, aggregate, class_init, list_event]; list_event is the caller's list
\* after the in-place sort, ok = FALSE is ReconstructionError.
reconstruct(list_event, aggregate, priority, class_init) ==
    LET sorted == SortEvents(list_event,
                             IF priority # "None" THEN priority ELSE DefaultPriority)
        r == MutateAll(sorted, 1, aggregate, class_init)
    IN  [ok |-> r.ok, aggregate |-> r.aggregate, class_init |-> r.class_init,
         list_event |-> sorted]

\* ---------------------------------------------------------------- recorders
\* A recorder as the store sees it: [name, rank, aggregates_types].  What its
\* save / commit / rollback / get do is the backend's: an oracle gives the
\* outcome of each call.
RecorderNames == <<"r1", "r2", "r3">>
NameSet == {RecorderNames[i] : i \in DOMAIN RecorderNames}

\* every weak ordering of three recorders is a rank assignment over Ranks
Ranks == {1, 2, 3}

TypeLists == {<<"Account">>, <<"PlainAccount">>, <<"Aggregate", "Account">>}

\* isinstance(aggregate, cls) for an aggregate of runtime class c
IsInstance(c, cls) == cls = c \/ cls = "Aggregate"

\* is_recordable without the isinstance test
is_recordable_any(recorder, c) == TRUE

\* Recorder.is_recordable

is_recordable(recorder, c) ==
    \E i \in DOMAIN recorder.aggregates_types :
        IsInstance(c, recorder.aggregates_types[i])

\* RecorderStore.__init__: {recorder.name: recorder for recorder in recorders},
\* as the sequence of the dict's values (a key keeps the place of its first
\* insertion and the value of its last)
RecorderStore_init(recorders) ==
    LET firsts == SelectSeq([i \in DOMAIN recorders |-> i],
                     LAMBDA i : \A j \in 1..(i - 1) :
                                    recorders[j].name # recorders[i].name)
        lastOf(n) == CHOOSE i \in DOMAIN recorders :
                        /\ recorders[i].name = n
                        /\ \A j \in DOMAIN recorders :
                               recorders[j].name = n => j <= i
    IN  [k \in DOMAIN firsts |-> recorders[lastOf(recorders[firsts[k]].name)]]

\* sorted(..., key=lambda x: x.rank): stable
RECURSIVE InsertByRank(_, _)
InsertByRank(sorted, x) ==
    IF sorted = <<>> THEN <<x>>
    ELSE LET last == sorted[Len(sorted)]
         IN  IF last.rank <= x.rank
             THEN Append(sorted, x)
             ELSE Append(InsertByRank(SubSeq(sorted, 1, Len(sorted) - 1), x), last)

RECURSIVE SortByRank(_)
SortByRank(list) ==
    IF list = <<>> THEN <<>>
    ELSE InsertByRank(SortByRank(SubSeq(list, 1, Len(list) - 1)), list[Len(list)])

Call(rec, op, out) == [rec |-> rec, op |-> op, out |-> out]
Result(kind, from) == [kind |-> kind, from |-> from]

\* recorder_list without the sort by rank
recorder_list_unsorted(values, c) ==
    SelectSeq(values, LAMBDA r : is_recordable(r, c))

\* RecorderStore.save, lines 56-59

recorder_list(values, c) ==
    SortByRank(SelectSeq(values, LAMBDA r : is_recordable(r, c)))

\* RecorderStore.save, lines 61-62: recorder.save(aggregate) in turn, until
\* one raises.  A recorder is handed the aggregate itself; oracle.drain says
\* whether it calls collect() on it.
RECURSIVE SaveLoop(_, _, _, _, _, _)
SaveLoop(list, i, d, oracle, calls, handed) ==
    IF i > Len(list)
    THEN [raised |-> FALSE, d |-> d, calls |-> calls, handed |-> handed]
    ELSE LET n   == list[i].name
             out == oracle.save[n]
             h   == [rec |-> n, kind |-> "aggregate",
                     events |-> d._unsaved_event_list]
             d2  == IF oracle.drain[n] THEN collect(d).d ELSE d
             c2  == Append(calls, Call(n, "save", out))
         IN  IF out = "ok"
             THEN SaveLoop(list, i + 1, d2, oracle, c2, Append(handed, h))
             ELSE [raised |-> TRUE, d |-> d2, calls |-> c2,
                   handed |-> Append(handed, h)]

\* RecorderStore.save, lines 64-68: rollback on each; RuntimeError is caught,
\* any other exception leaves the loop and the function
RECURSIVE RollbackLoop(_, _, _, _)
RollbackLoop(list, i, oracle, calls) ==
    IF i > Len(list) THEN [raised |-> FALSE, from |-> "", calls |-> calls]
    ELSE LET n   == list[i].name
             out == oracle.rollback[n]
             c2  == Append(calls, Call(n, "rollback", out))
         IN  IF out = "Exception"
             THEN [raised |-> TRUE, from |-> n, calls |-> c2]
             ELSE RollbackLoop(list, i + 1, oracle, c2)

\* RecorderStore.save, lines 70-71
RECURSIVE CommitLoop(_, _, _, _)
CommitLoop(list, i, oracle, calls) ==
    IF i > Len(list) THEN [raised |-> FALSE, from |-> "", calls |-> calls]
    ELSE LET n   == list[i].name
             out == oracle.commit[n]
             c2  == Append(calls, Call(n, "commit", out))
         IN  IF out = "ok" THEN CommitLoop(list, i + 1, oracle, c2)
                           ELSE [raised |-> TRUE, from |-> n, calls |-> c2]

\* RecorderStore.save with the commit loop run after the rollbacks as well
RecorderStore_save_commit_always(values, aggregate, oracle) ==
    LET list == recorder_list(values, aggregate.cls)
        s == SaveLoop(list, 1, aggregate.d, oracle, <<>>, <<>>)
    IN  IF s.raised
        THEN LET r == RollbackLoop(list, 1, oracle, s.calls)
                 c == CommitLoop(list, 1, oracle, r.calls)
             IN  [calls |-> c.calls, handed |-> s.handed, d |-> s.d,
                  result |-> IF r.raised THEN Result("RollbackException", r.from)
                             ELSE Result("RecorderSavingError",
                                         s.calls[Len(s.calls)].rec)]
        ELSE LET c == CommitLoop(list, 1, oracle, s.calls)
             IN  [calls |-> c.calls, handed |-> s.handed, d |-> s.d,
                  result |-> IF c.raised THEN Result("CommitException", c.from)
                             ELSE Result("None", "")]

\* RecorderStore.save(aggregate), values the store's recorders in dict order:
\* [calls, handed, result, d]
RecorderStore_save(values, aggregate, oracle) ==
    LET list == recorder_list(values, aggregate.cls)
        s == SaveLoop(list, 1, aggregate.d, oracle, <<>>, <<>>)
    IN  IF s.raised
        THEN LET r == RollbackLoop(list, 1, oracle, s.calls)
             IN  [calls |-> r.calls, handed |-> s.handed, d |-> s.d,
                  result |-> IF r.raised THEN Result("RollbackException", r.from)
                             ELSE Result("RecorderSavingError",
                                         s.calls[Len(s.calls)].rec)]
        ELSE LET c == CommitLoop(list, 1, oracle, s.calls)
             IN  [calls |-> c.calls, handed |-> s.handed, d |-> s.d,
                  result |-> IF c.raised THEN Result("CommitException", c.from)
                             ELSE Result("None", "")]

\* GetLoop catching every exception, not AggregateNotFoundError alone
RECURSIVE GetLoop_swallow(_, _, _, _)
GetLoop_swallow(list, i, oracle, calls) ==
    IF i > Len(list) THEN [calls |-> calls, result |-> Result("None", "")]
    ELSE LET n   == list[i].name
             out == oracle[n]
             c2  == Append(calls, Call(n, "get", out))
         IN  IF out = "found"
             THEN [calls |-> c2, result |-> Result("aggregate", n)]
             ELSE GetLoop_swallow(list, i + 1, oracle, c2)

\* RecorderStore.get(originator_id, recorder_name), lines 106-114
RECURSIVE GetLoop(_, _, _, _)
GetLoop(list, i, oracle, calls) ==
    IF i > Len(list) THEN [calls |-> calls, result |-> Result("None", "")]
    ELSE LET n   == list[i].name
             out == oracle[n]
             c2  == Append(calls, Call(n, "get", out))
         IN  CASE out = "found" -> [calls |-> c2, result |-> Result("aggregate", n)]
               [] out = "Exception" -> [calls |-> c2, result |-> Result("Exception", n)]
               [] OTHER -> GetLoop(list, i + 1, oracle, c2)

\* recorder.get(originator_id) returned or propagated as it is
Delegate(n, oracle) ==
    [calls |-> <<Call(n, "get", oracle[n])>>,
     result |-> CASE oracle[n] = "found" -> Result("aggregate", n)
                  [] oracle[n] = "None" -> Result("None", "")
                  [] OTHER -> Result(oracle[n], n)]

RecorderStore_get(values, recorder_name, oracle) ==
    IF recorder_name # "None"
    THEN IF \E i \in DOMAIN values : values[i].name = recorder_name
         THEN Delegate(recorder_name, oracle)
         ELSE [calls |-> <<>>, result |-> Result("KeyError", "")]
    ELSE GetLoop(SortByRank(values), 1, oracle, <<>>)

\* ------------------------------------------------------------- application
\* Application.save, lines 15-18: the (recorder, aggregate_type) pairs whose
\* isinstance test passes, in loop order
RECURSIVE SaveTargets(_, _, _, _)
SaveTargets(recorders, i, j, c) ==
    IF i > Len(recorders) THEN <<>>
    ELSE IF j > Len(recorders[i].aggregates_types)
    THEN SaveTargets(recorders, i + 1, 1, c)
    ELSE (IF IsInstance(c, recorders[i].aggregates_types[j])
          THEN <<recorders[i].name>> ELSE <<>>)
         \o SaveTargets(recorders, i, j + 1, c)

RECURSIVE AppSaveLoop(_, _, _, _, _, _)
AppSaveLoop(targets, i, event_list, oracle, calls, handed) ==
    IF i > Len(targets)
    THEN [calls |-> calls, handed |-> handed, result |-> Result("None", "")]
    ELSE LET n   == targets[i]
             out == oracle.save[n]
             c2  == Append(calls, Call(n, "save", out))
             h2  == Append(handed, [rec |-> n, kind |-> "event_list",
                                    events |-> event_list])
         IN  IF out = "ok"
             THEN AppSaveLoop(targets, i + 1, event_list, oracle, c2, h2)
             ELSE [calls |-> c2, handed |-> h2,
                   result |-> Result("SaveException", n)]

\* Application.save(aggregate): [calls, handed, result, d]
Application_save(recorders, aggregate, oracle) ==
    LET col == collect(aggregate.d)
        r == AppSaveLoop(SaveTargets(recorders, 1, 1, aggregate.cls), 1,
                         col.output, oracle, <<>>, <<>>)
    IN  [calls |-> r.calls, handed |-> r.handed, result |-> r.result,
         d |-> col.d]

\* Application.get, lines 32-42
RECURSIVE AppGetLoop(_, _, _, _, _)
AppGetLoop(recorders, i, recorder_name, oracle, calls) ==
    IF i > Len(recorders) THEN [calls |-> calls, result |-> Result("None", "")]
    ELSE LET n   == recorders[i].name
             out == oracle[n]
             c2  == Append(calls, Call(n, "get", out))
         IN  IF recorder_name # "None" /\ n = recorder_name
             THEN LET r == Delegate(n, oracle)
                  IN  [calls |-> calls \o r.calls, result |-> r.result]
             ELSE CASE out = "found" ->
                         [calls |-> c2, result |-> Result("aggregate", n)]
                    [] out = "Exception" ->
                         [calls |-> c2, result |-> Result("Exception", n)]
                    [] OTHER -> AppGetLoop(recorders, i + 1, recorder_name,
                                           oracle, c2)

\* Application.get(originator_id, recorder, recorder_name); recorder_class is
\* left at its default None
Application_get(recorders, recorder, recorder_name, oracle) ==
    IF recorder # "None"
    THEN Delegate(recorder, oracle)
    ELSE AppGetLoop(recorders, 1, recorder_name, oracle, <<>>)

\* ---------------------------------------------------------- bounded cache
\* A LimitedOrderedDict is [data, max_size, current_size]; data is the
\* OrderedDict as the sequence of its items [key, values], oldest first.
LimitedOrderedDict_init(max_size) ==
    [data |-> <<>>, max_size |-> max_size, current_size |-> 0]

HasKey(data, key) == \E i \in DOMAIN data : data[i].key = key
ValuesOf(data, key) == data[CHOOSE i \in DOMAIN data : data[i].key = key].values

\* OrderedDict.pop(key): the items without the one of that key
RemoveKey(data, key) == SelectSeq(data, LAMBDA it : it.key # key)

\* LimitedOrderedDict.pop: popitem(last=False) drops the oldest item;
\* current_size is left as it is
LimitedOrderedDict_pop(self) == [self EXCEPT !.data = Tail(self.data)]

\* LimitedOrderedDict.add with the store alone (no pop of the key first): a
\* key that is there keeps its place in the order
LimitedOrderedDict_add_in_place(self, key, value) ==
    LET value_list == IF HasKey(self.data, key) THEN ValuesOf(self.data, key)
                                                ELSE <<>>
        item == [key |-> key, values |-> Append(value_list, value)]
        self1 == [self EXCEPT !.data =
                     IF HasKey(self.data, key)
                     THEN [i \in DOMAIN self.data |->
                             IF self.data[i].key = key THEN item ELSE self.data[i]]
                     ELSE Append(self.data, item)]
    IN  IF self1.max_size = self1.current_size + 1
        THEN LimitedOrderedDict_pop(self1)
        ELSE [self1 EXCEPT !.current_size = self1.current_size + 1]

\* LimitedOrderedDict.add
LimitedOrderedDict_add(self, key, value) ==
    LET value_list == IF HasKey(self.data, key) THEN ValuesOf(self.data, key)
                                                ELSE <<>>
        self1 == [self EXCEPT !.data =
                     Append(RemoveKey(self.data, key),
                            [key |-> key, values |-> Append(value_list, value)])]
    IN  IF self1.max_size = self1.current_size + 1
        THEN LimitedOrderedDict_pop(self1)
        ELSE [self1 EXCEPT !.current_size = self1.current_size + 1]

\* self.data[key] = value_list: a key that is there keeps its place
SetItem(data, key, values) ==
    IF HasKey(data, key)
    THEN [i \in DOMAIN data |->
            IF data[i].key = key THEN [key |-> key, values |-> values] ELSE data[i]]
    ELSE Append(data, [key |-> key, values |-> values])

\* ------------------------------------ the OrderedDict under concurrent callers
\* With one caller an OrderedDict is the sequence of its items.  With several
\* callers and keys that are uuid.UUID objects (what EventAggregateMemory
\* passes), a dict operation on a key stored under another, equal object calls
\* UUID.__eq__, which is Python code: the interpreter may run another caller
\* there, in the middle of the operation.  The OrderedDict is then seen in its
\* parts: the dict entries (entries: key -> [obj, list, node], obj the key
\* object stored, list the value, node what od_fast_nodes holds at the entry's
\* index), the linked list of nodes that gives the order (nodes, each [id, key,
\* obj]), what od_fast_nodes holds at the index the next new entry will take
\* (spare), the number of nodes made so far (made), for each node freed the
\* number of nodes made by then (freed), and whether the allocator has been
\* handed a block twice (corrupt).  Objects have identities: key object 0 and
\* list -i for the i-th item stored before the callers run, key object t and
\* list t for what caller t creates.  The dict is taken young enough not to be
\* resized while the callers run.
NoNode == 0
NoList == 0
StoredKey == 0
StoredList(i) == 0 - i

OrderedDict_of(data) ==
    [entries |-> [k \in {data[i].key : i \in DOMAIN data} |->
                    LET i == CHOOSE j \in DOMAIN data : data[j].key = k
                    IN  [obj |-> StoredKey, list |-> StoredList(i), node |-> i]],
     nodes |-> [i \in DOMAIN data |-> [id |-> i, key |-> data[i].key, obj |-> StoredKey]],
     spare |-> NoNode,
     made |-> Len(data),
     freed |-> <<>>,
     corrupt |-> FALSE]

\* the list objects of the items stored before the callers run
Heap_of(data) == [l \in {StoredList(i) : i \in DOMAIN data} |-> data[0 - l].values]

HasEntry(od, key) == key \in DOMAIN od.entries

\* a lookup of key through the object obj calls UUID.__eq__: the key is stored
\* under another object
Compares(od, key, obj) == HasEntry(od, key) /\ od.entries[key].obj # obj

\* od_fast_nodes[_odict_get_index(key)]: the index of the key's entry, and of
\* the next new entry for a key that has none
Slot(od, key) == IF HasEntry(od, key) THEN od.entries[key].node ELSE od.spare

SetSlot(od, key, node) ==
    IF HasEntry(od, key) THEN [od EXCEPT !.entries[key].node = node]
                         ELSE [od EXCEPT !.spare = node]

Linked(od, node) == \E i \in DOMAIN od.nodes : od.nodes[i].id = node

\* _odict_remove_node and _odictnode_DEALLOC
Unlink(od, node) ==
    [od EXCEPT !.nodes = SelectSeq(od.nodes, LAMBDA n : n.id # node),
               !.freed = (node :> od.made) @@ od.freed]

\* the nodes that may lie where the freed node lay: those made since
Reusing(od, node) ==
    {od.nodes[i].id : i \in {j \in DOMAIN od.nodes : od.nodes[j].id > od.freed[node]}}

\* the death of the interpreter (SIGSEGV) in a step of the caller th
Dies(self, heap, th) ==
    [self |-> self, heap |-> heap, th |-> [th EXCEPT !.pc = "dead", !.error = "SIGSEGV"]]

\* the outcomes of a step: once the allocator is corrupt, any step may be the
\* interpreter's last
MayDie(self, heap, th, outcomes) ==
    IF self.data.corrupt THEN outcomes \cup {Dies(self, heap, th)} ELSE outcomes

\* the items as iteration gives them: in the order of the nodes, each key with
\* the values of its list
Items(od, heap) ==
    LET seen == SelectSeq(od.nodes, LAMBDA n : HasEntry(od, n.key))
    IN  [i \in DOMAIN seen |->
           [key |-> seen[i].key, values |-> heap[od.entries[seen[i].key].list]]]

\* LimitedOrderedDict.add as the steps a caller takes between the points where
\* another caller may run: the entry of a Python function called on the way
\* (UUID.__hash__ before each operation on the key, UUID.__eq__ inside it,
\* LimitedOrderedDict.pop).  th holds the caller's position (pc: the line it
\* is about to run or is in; at: the call inside that line it is suspended
\* in), its arguments (key, its object id, value), its local value_list (a
\* list object) and the locals of the pop it is in (find).  Each step gives
\* the set of its outcomes [self, heap, th]; heap gives each list object's
\* values.
NoFind == [key |-> 0, obj |-> 0, node |-> NoNode]

Outcome(self, heap, th) == [self |-> self, heap |-> heap, th |-> th]

\* line 177: the test `key in self.data` (and lines 180-181 when it is false)
add_test(self, heap, th) ==
    IF HasEntry(self.data, th.key)
    THEN {Outcome(self, heap, [th EXCEPT !.pc = "178"])}
    ELSE {Outcome(self, (th.id :> <<th.value>>) @@ heap,
                  [th EXCEPT !.pc = "182", !.value_list = th.id])}

\* lines 183-186: the test of the size and the increment, up to the entry of
\* self.pop()
add_count(self, heap, th) ==
    IF self.max_size = self.current_size + 1
    THEN {Outcome(self, heap, [th EXCEPT !.pc = "184", !.at = "line"])}
    ELSE {Outcome([self EXCEPT !.current_size = self.current_size + 1], heap,
                  [th EXCEPT !.pc = "done", !.at = "line"])}

\* the return of OrderedDict.pop(key) to line 178 (the list popped takes the
\* value, line 181) and of popitem to self.pop(), line 184; KeyError ends add
popkey_return(self, heap, th, found, list) ==
    IF ~found
    THEN {Outcome(self, heap, [th EXCEPT !.pc = "done", !.at = "line",
                                         !.error = "KeyError"])}
    ELSE IF th.pc = "178"
    THEN {Outcome(self, [heap EXCEPT ![list] = Append(heap[list], th.value)],
                  [th EXCEPT !.pc = "182", !.at = "line", !.value_list = list])}
    ELSE {Outcome(self, heap, [th EXCEPT !.pc = "done", !.at = "line"])}

\* _odict_popkey_hash, third part: the key's entry leaves the dict
popkey_delete(self, heap, th) ==
    IF HasEntry(self.data, th.find.key)
    THEN popkey_return([self EXCEPT !.data.entries =
                           [k \in DOMAIN self.data.entries \ {th.find.key} |->
                              self.data.entries[k]]],
                       heap, th, TRUE, self.data.entries[th.find.key].list)
    ELSE popkey_return(self, heap, th, FALSE, NoList)

\* _odict_popkey_hash, from the end of _odict_clear_node on
popkey_cleared(self, heap, th) ==
    IF Compares(self.data, th.find.key, th.find.obj)
    THEN {Outcome(self, heap, [th EXCEPT !.at = "delete"])}
    ELSE popkey_delete(self, heap, th)

\* _odict_popkey_hash, second part (_odict_clear_node): od_fast_nodes at the
\* key's index is cleared, the node found is unlinked and freed.  A node that
\* another caller has freed meanwhile is a dangling pointer, and what its
\* use does is undefined: the interpreter dies (SIGSEGV); or the block is
\* free still, the list stays as it is and the block is freed a second time;
\* or the block holds a node made since, which is unlinked and freed.
popkey_clear(self, heap, th) ==
    LET od == self.data
        cleared == SetSlot(od, th.find.key, NoNode)
    IN  IF Linked(od, th.find.node)
        THEN popkey_cleared([self EXCEPT !.data = Unlink(cleared, th.find.node)],
                            heap, th)
        ELSE {Dies(self, heap, th)}
             \cup popkey_cleared([self EXCEPT !.data = [cleared EXCEPT !.corrupt = TRUE]],
                                 heap, th)
             \cup UNION {popkey_cleared([self EXCEPT !.data = Unlink(cleared, node)],
                                        heap, th) :
                         node \in Reusing(od, th.find.node)}

\* _odict_popkey_hash, first part (_odict_find_node): the node that
\* od_fast_nodes holds for the key; none is KeyError
popkey_find(self, heap, th) ==
    LET od == self.data
        th1 == [th EXCEPT !.find.node = Slot(od, th.find.key)]
    IN  IF th1.find.node = NoNode
        THEN popkey_return(self, heap, th, FALSE, NoList)
        ELSE IF od.nodes = <<>>
        THEN IF Compares(od, th.find.key, th.find.obj)
             THEN {Outcome(self, heap, [th1 EXCEPT !.at = "delete"])}
             ELSE popkey_delete(self, heap, th1)
        ELSE IF Compares(od, th.find.key, th.find.obj)
        THEN {Outcome(self, heap, [th1 EXCEPT !.at = "clear"])}
        ELSE popkey_clear(self, heap, th1)

\* _odict_popkey_hash as called: an OrderedDict without nodes has no key
popkey_enter(self, heap, th) ==
    IF self.data.nodes = <<>>
    THEN popkey_return(self, heap, th, FALSE, NoList)
    ELSE IF Compares(self.data, th.find.key, th.find.obj)
    THEN {Outcome(self, heap, [th EXCEPT !.at = "find"])}
    ELSE popkey_find(self, heap, th)

\* line 178: self.data.pop(key), as far as its first UUID.__eq__
add_pop(self, heap, th) ==
    popkey_enter(self, heap,
                 [th EXCEPT !.find = [key |-> th.key, obj |-> th.id, node |-> NoNode]])

\* line 182, second part (_odict_add_new_node), and lines 183-186: a key whose
\* od_fast_nodes is empty gets a node at the end of the list
add_node(self, heap, th) ==
    LET od == self.data
        node == od.made + 1
        od1 == IF Slot(od, th.key) # NoNode THEN od
               ELSE SetSlot([od EXCEPT !.nodes = Append(od.nodes,
                                          [id |-> node, key |-> th.key, obj |-> th.id]),
                                       !.made = node],
                            th.key, node)
    IN  add_count([self EXCEPT !.data = od1], heap, th)

\* line 182, first part: self.data[key] = value_list puts the list in the
\* dict, in the key's entry or in a new one
add_store(self, heap, th) ==
    LET od == self.data
        od1 == IF HasEntry(od, th.key)
               THEN [od EXCEPT !.entries[th.key].list = th.value_list]
               ELSE [od EXCEPT !.entries = (th.key :> [obj |-> th.id,
                                                        list |-> th.value_list,
                                                        node |-> od.spare])
                                           @@ od.entries,
                               !.spare = NoNode]
        self1 == [self EXCEPT !.data = od1]
    IN  IF Compares(od1, th.key, th.id)
        THEN {Outcome(self1, heap, [th EXCEPT !.at = "node"])}
        ELSE add_node(self1, heap, th)

\* line 184: self.pop(), popitem(last=False) pops the key of the first node;
\* KeyError on an OrderedDict without nodes
add_evict(self, heap, th) ==
    IF self.data.nodes = <<>>
    THEN popkey_return(self, heap, th, FALSE, NoList)
    ELSE popkey_enter(self, heap,
                      [th EXCEPT !.find = [key |-> self.data.nodes[1].key,
                                           obj |-> self.data.nodes[1].obj,
                                           node |-> NoNode]])

\* LimitedOrderedDict.get: OrderedDict.get is dict.get, which takes no
\* keyword argument, so the call self.data.get(key, default=default) raises
\* TypeError whatever the key.
LimitedOrderedDict_get(self, key, default) ==
    [ok |-> FALSE, error |-> "TypeError", value |-> default]

\* --------------------------------------------------- EventMemoryRecorder
\* EventMemory.data: a function from the originator ids stored to their lists
\* of events; EventMemory.__init__ gives the empty one.
EventMemory_init == <<>>

\* EventMemory.add: setdefault(event.originator_id, []).append(event)
EventMemory_add(data, ev) ==
    IF ev.originator_id \in DOMAIN data
    THEN [data EXCEPT ![ev.originator_id] = Append(@, ev)]
    ELSE (ev.originator_id :> <<ev>>) @@ data

\* EventMemory.__setitem__(key, value)
EventMemory_setitem(data, key, value) == (key :> value) @@ data

\* EventMemory.__delitem__(key): [ok, data], ok = FALSE is KeyError
EventMemory_delitem(data, key) ==
    IF key \in DOMAIN data
    THEN [ok |-> TRUE, data |-> [k \in DOMAIN data \ {key} |-> data[k]]]
    ELSE [ok |-> FALSE, data |-> data]

\* EventMemoryRecorder.save(event_list): the data after the loop
RECURSIVE EventMemoryRecorder_save(_, _)
EventMemoryRecorder_save(data, event_list) ==
    IF event_list = <<>> THEN data
    ELSE EventMemoryRecorder_save(EventMemory_add(data, event_list[1]),
                                  Tail(event_list))

\* what EventMemoryRecorder.get gives once reconstruct has run with result r
Reconstructed(data, originator_id, r) ==
    [out |-> IF r.ok THEN "found" ELSE "Exception",
     aggregate |-> r.aggregate,
     data |-> [data EXCEPT ![originator_id] = r.list_event],
     class_init |-> r.class_init]

\* EventMemoryRecorder.get(originator_id): [out, aggregate, data, class_init];
\* out is "found", "AggregateNotFoundError" or "Exception" (the
\* ReconstructionError of reconstruct); reconstruct sorts the stored list.
EventMemoryRecorder_get(data, originator_id, class_init) ==
    IF originator_id \notin DOMAIN data \/ data[originator_id] = <<>>
    THEN [out |-> "AggregateNotFoundError", aggregate |-> NoAggregate,
          data |-> data, class_init |-> class_init]
    ELSE Reconstructed(data, originator_id,
                       reconstruct(data[originator_id], NoAggregate, "None", class_init))

\* ------------------------------------------------- EventAggregateMemory
\* LimitedOrderedDict.__init__'s default max_size
DefaultMaxSize == 5000

\* what LimitedOrderedDict.get hands back: None, or a list
NoneValue == [none |-> TRUE, list |-> <<>>]
ListValue(list) == [none |-> FALSE, list |-> list]
\* not x, for x None or a list
Falsy(x) == x.none \/ x.list = <<>>

\* EventAggregateMemory.__init__: [snapshots, events]
EventAggregateMemory_init ==
    [snapshots |-> LimitedOrderedDict_init(DefaultMaxSize),
     events |-> LimitedOrderedDict_init(DefaultMaxSize)]

add_event(self, ev) ==
    [self EXCEPT !.events = LimitedOrderedDict_add(@, ev.originator_id, ev)]

add_aggregate(self, aggregate) ==
    [self EXCEPT !.snapshots = LimitedOrderedDict_add(@, aggregate.d._id, aggregate)]

\* Priority.get_key(Aggregate)
get_key_aggregate(priority, x) ==
    IF priority = "version" THEN <<x.d._version, x.d._last_update_date>>
                            ELSE <<x.d._last_update_date, x.d._version>>

\* max(snapshots, key=...): the first of the largest
RECURSIVE MaxByKey(_, _)
MaxByKey(snapshots, priority) ==
    IF Len(snapshots) = 1 THEN snapshots[1]
    ELSE LET best == MaxByKey(SubSeq(snapshots, 1, Len(snapshots) - 1), priority)
             last == snapshots[Len(snapshots)]
         IN  IF TupleLeq(get_key_aggregate(priority, last),
                         get_key_aggregate(priority, best))
             THEN best ELSE last

Raised(error) == [ok |-> FALSE, error |-> error, value |-> NoAggregate]

\* EventAggregateMemory.get from line 284 on, given what the two
\* LimitedOrderedDict.get calls returned; max_version / max_timestamp 0 stand
\* for None (both are tested for truth).  Iterating None and max(None) raise
\* TypeError, max([]) raises ValueError.  The reconstructor's own default
\* priority is used, not the priority argument.
EventAggregateMemory_merge(snapshots, events, max_version, max_timestamp, default, priority, class_init) ==
    IF Falsy(events) /\ Falsy(snapshots)
    THEN [ok |-> TRUE, error |-> "None", value |-> default]
    ELSE IF snapshots.none
    THEN Raised("TypeError")
    ELSE LET s1 == IF max_version # 0
                   THEN SelectSeq(snapshots.list,
                                  LAMBDA x : x.d._version <= max_version)
                   ELSE snapshots.list
             s2 == IF max_timestamp # 0
                   THEN SelectSeq(s1, LAMBDA x : x.d._last_update_date <= max_timestamp)
                   ELSE s1
         IN  IF s2 = <<>>
             THEN Raised("ValueError")
             ELSE IF events.none
             THEN Raised("TypeError")
             ELSE LET aggregate == MaxByKey(s2, priority)
                      e1 == SelectSeq(events.list,
                                LAMBDA e : e.version > aggregate.d._version)
                      e2 == SelectSeq(e1,
                                LAMBDA e : e.timestamp > aggregate.d._last_update_date)
                      r == reconstruct(e2, aggregate, "None", class_init)
                  IN  IF r.ok
                      THEN [ok |-> TRUE, error |-> "None", value |-> r.aggregate]
                      ELSE Raised("ReconstructionError")

\* EventAggregateMemory.get
EventAggregateMemory_get(self, originator_id, max_version, max_timestamp, default, priority, class_init) ==
    LET snapshots == LimitedOrderedDict_get(self.snapshots, originator_id, NoneValue)
        events == LimitedOrderedDict_get(self.events, originator_id, NoneValue)
    IN  IF ~snapshots.ok THEN Raised(snapshots.error)
        ELSE IF ~events.ok THEN Raised(events.error)
        ELSE EventAggregateMemory_merge(snapshots.value, events.value, max_version,
                                        max_timestamp, default, priority, class_init)

\* The stored snapshot that get works on is the object max() returned, and
\* Event.mutate changes the aggregate it is given in place: the position in
\* the stored list of the snapshot chosen (the first of the largest among
\* those within the bounds), 0 when none is within the bounds.
ChosenIndex(list, max_version, max_timestamp, priority) ==
    LET within == { i \in DOMAIN list :
                      /\ max_version = 0 \/ list[i].d._version <= max_version
                      /\ max_timestamp = 0
                            \/ list[i].d._last_update_date <= max_timestamp }
        largest == { i \in within : \A j \in within :
                       TupleLeq(get_key_aggregate(priority, list[j]),
                                get_key_aggregate(priority, list[i])) }
    IN  IF within = {} THEN 0
        ELSE CHOOSE i \in largest : \A j \in largest : i <= j

\* the aggregate object after reconstruct's loop has returned or raised: the
\* events up to the first one that raises have been applied to it
RECURSIVE AppliedInPlace(_, _, _, _)
AppliedInPlace(events, i, aggregate, class_init) ==
    IF i > Len(events) THEN aggregate
    ELSE LET r == mutate(events[i], aggregate, class_init)
         IN  IF r.ok THEN AppliedInPlace(events, i + 1, r.aggregate, r.class_init)
                     ELSE aggregate

\* the stored snapshot list of one originator after lines 284-298 of get
EventAggregateMemory_merge_stored(snapshots, events, max_version, max_timestamp, priority, class_init) ==
    IF Falsy(events) /\ Falsy(snapshots) THEN snapshots
    ELSE IF snapshots.none \/ events.none THEN snapshots
    ELSE LET c == ChosenIndex(snapshots.list, max_version, max_timestamp, priority)
         IN  IF c = 0 THEN snapshots
             ELSE LET aggregate == snapshots.list[c]
                      e1 == SelectSeq(events.list,
                                LAMBDA e : e.version > aggregate.d._version)
                      e2 == SelectSeq(e1,
                                LAMBDA e : e.timestamp > aggregate.d._last_update_date)
                  IN  ListValue([snapshots.list EXCEPT ![c] =
                          AppliedInPlace(SortEvents(e2, DefaultPriority), 1,
                                         aggregate, class_init)])

\* the memory after EventAggregateMemory.get: as it was when one of the two
\* LimitedOrderedDict.get calls raised
EventAggregateMemory_get_stored(self, originator_id, max_version, max_timestamp, priority, class_init) ==
    LET snapshots == LimitedOrderedDict_get(self.snapshots, originator_id, NoneValue)
        events == LimitedOrderedDict_get(self.events, originator_id, NoneValue)
    IN  IF ~snapshots.ok \/ ~events.ok \/ snapshots.value.none THEN self
        ELSE [self EXCEPT !.snapshots.data =
                SetItem(@, originator_id,
                        EventAggregateMemory_merge_stored(snapshots.value, events.value,
                            max_version, max_timestamp, priority, class_init).list)]

\* ------------------------------------------------------------------- state
VARIABLES
    agg,          \* the live aggregate the caller holds, or NoAggregate
    class_init,   \* per class, the function installed as __init__
    clock,        \* the last value datetime.now() returned
    next_id,      \* the next value uuid4() returns
    nops,         \* wrapper executions on agg since it was constructed
    ncollect,     \* collect() calls on agg since it was constructed: 0, 1, 2 = more
    collected,    \* the list the last collect() returned
    at_collect,   \* agg as it was when the last collect() returned
    replay,       \* outcome of the last reconstruct of collected
    recorders,    \* the list of recorders the store / application was built on
    call,         \* the store or application call the caller last made
    returned,     \* versions of the events the collect() calls on agg returned
    lod,          \* a LimitedOrderedDict and what its last add did
    memory,       \* per recorder name, the data of its EventMemory
    probe,        \* the last call made on given arguments, and its outcome
    threads       \* per concurrent caller, where it is in its call and its locals

aggVars == <<agg, class_init, registry, clock, next_id, nops, ncollect, collected,
             at_collect, replay, returned>>
sideVars == <<lod, memory, probe, threads>>
\* what a call that replays events leaves alone
replayFrame == <<agg, registry, clock, next_id, nops, ncollect, collected,
                 at_collect, replay, returned, recorders, call, lod, memory,
                 threads>>
vars == <<agg, class_init, registry, clock, next_id, nops, ncollect, collected,
          at_collect, replay, recorders, call, returned, lod, memory, probe,
          threads>>

NoReplay == [status |-> "none", priority |-> "None", aggregate |-> NoAggregate]

NoLod == [self |-> LimitedOrderedDict_init(0), before |-> LimitedOrderedDict_init(0),
          key |-> 0, value |-> 0, nadds |-> 0, heap |-> <<>>]
NoMemory == <<>>
NoProbe == [op |-> "none"]
NoThreads == <<>>

\* no call made yet, or its outcome already taken by the caller
NoCall == [handler |-> "none", recorder |-> "None", recorder_name |-> "None",
           before |-> <<>>, calls |-> <<>>, handed |-> <<>>,
           result |-> Result("None", ""),
           ref_calls |-> <<>>, ref_result |-> Result("None", "")]

Init ==
    /\ agg = NoAggregate
    /\ class_init = [c \in Classes |-> OriginalInit(c)]
    /\ registry \in Registries
    /\ clock = ImportTime
    /\ next_id = 1
    /\ nops = 0
    /\ ncollect = 0
    /\ collected = <<>>
    /\ at_collect = NoAggregate
    /\ replay = NoReplay
    /\ recorders = <<>>
    /\ call = NoCall
    /\ returned = <<>>
    /\ lod = NoLod
    /\ memory = NoMemory
    /\ probe = NoProbe
    /\ threads = NoThreads

\* cls(*args): a live construction
Construct(cls) ==
    /\ next_id <= MaxIds
    /\ \E now \in clock..MaxTime :
         LET r == AggregateMeta_call(cls, class_init[cls], CtorArgs(cls),
                                     next_id, now)
         IN  /\ clock' = IF class_init[cls] = "wrapper" THEN now ELSE clock
             /\ next_id' = next_id + 1
             /\ IF r.ok
                THEN /\ agg' = r.aggregate
                     /\ nops' = IF class_init[cls] = "wrapper" THEN 1 ELSE 0
                     /\ ncollect' = 0
                     /\ collected' = <<>>
                     /\ at_collect' = NoAggregate
                     /\ replay' = NoReplay
                     /\ returned' = <<>>
                ELSE UNCHANGED <<agg, nops, ncollect, collected, at_collect,
                                 replay, returned>>
    /\ UNCHANGED <<registry, class_init, recorders, call, sideVars>>

\* Account.add / Account.subtract, with the timestamp given or defaulted
OperateAccount(name) ==
    /\ agg.cls = "Account"
    /\ nops < MaxOps
    /\ \E amount \in Amounts, timestamp \in Times :
         LET r == wrapper("Account", name, agg.d,
                          [amount |-> amount, timestamp |-> timestamp], clock)
         IN  /\ r.ok
             /\ agg' = [agg EXCEPT !.d = r.d]
    /\ nops' = nops + 1
    /\ UNCHANGED <<registry, class_init, clock, next_id, ncollect, collected, at_collect,
                   replay, recorders, call, returned, sideVars>>

\* PlainAccount.deposit / PlainAccount.withdraw: stamped with datetime.now()
OperatePlain(name) ==
    /\ agg.cls = "PlainAccount"
    /\ nops < MaxOps
    /\ \E amount \in Amounts, now \in clock..MaxTime :
         LET r == wrapper(Qualname("PlainAccount"), name, agg.d, [amount |-> amount], now)
         IN  /\ r.ok
             /\ agg' = [agg EXCEPT !.d = r.d]
             /\ clock' = now
    /\ nops' = nops + 1
    /\ UNCHANGED <<registry, class_init, next_id, ncollect, collected, at_collect, replay,
                   recorders, call, returned, sideVars>>

\* agg.collect()
Collect ==
    /\ agg.cls # "None"
    /\ LET r == collect(agg.d)
       IN  /\ collected' = r.output
           /\ returned' = returned \o [i \in 1..Len(r.output) |-> r.output[i].version]
           /\ agg' = [agg EXCEPT !.d = r.d]
           /\ at_collect' = [agg EXCEPT !.d = r.d]
    /\ ncollect' = IF ncollect = 0 THEN 1 ELSE 2
    /\ replay' = NoReplay
    /\ UNCHANGED <<registry, class_init, clock, next_id, nops, recorders, call, sideVars>>

\* reconstruct(collected) from None
Replay ==
    /\ collected # <<>>
    /\ replay.status = "none"
    /\ \E priority \in Priorities \cup {"None"} :
         LET r == reconstruct(collected, NoAggregate, priority, class_init)
         IN  /\ replay' = [status |-> IF r.ok THEN "ok" ELSE "ReconstructionError",
                           priority |-> priority,
                           aggregate |-> r.aggregate]
             /\ class_init' = r.class_init
             /\ collected' = r.list_event
    /\ UNCHANGED <<registry, agg, clock, next_id, nops, ncollect, at_collect, recorders, call,
                   returned, sideVars>>

Next ==
    \/ \E cls \in Classes : Construct(cls)
    \/ \E name \in {"add", "subtract"} : OperateAccount(name)
    \/ \E name \in {"deposit", "withdraw"} : OperatePlain(name)
    \/ Collect
    \/ Replay

Spec == Init /\ [][Next]_vars

\* ------------------------------------------------- store and application
\* The recorder lists a store is built on: three recorders of distinct names,
\* any of the type lists, and ranks in every weak order (only the order of
\* the ranks is read, so the ranks used are taken to be 1..k).
RankAssignments ==
    {rk \in [DOMAIN RecorderNames -> Ranks] :
        \E k \in Ranks : {rk[i] : i \in DOMAIN RecorderNames} = 1..k}

RecorderConfigs ==
    {[i \in DOMAIN RecorderNames |->
        [name |-> RecorderNames[i], rank |-> rk[i], aggregates_types |-> ty[i]]] :
     rk \in RankAssignments,
     ty \in [DOMAIN RecorderNames -> TypeLists]}

\* Aggregates a caller may hold when it saves: an Account constructed and
\* used once (two events), an Account already collected (none), a
\* PlainAccount used once (one event).
NewAccount == AggregateMeta_call("Account", "wrapper", CtorArgs("Account"),
                                 1, ImportTime).aggregate
NewPlain == AggregateMeta_call("PlainAccount", "plain", CtorArgs("PlainAccount"),
                               1, ImportTime).aggregate
StoreAggregates ==
    { [NewAccount EXCEPT !.d = wrapper("Account", "add", NewAccount.d,
                     [amount |-> 1, timestamp |-> ImportTime], ImportTime).d],
      [NewAccount EXCEPT !.d = collect(NewAccount.d).d],
      [NewPlain EXCEPT !.d = wrapper(Qualname("PlainAccount"), "deposit", NewPlain.d,
                     [amount |-> 1], ImportTime).d] }

InitStore ==
    /\ agg \in StoreAggregates
    /\ class_init = [c \in Classes |-> OriginalInit(c)]
    /\ registry = Registered(<<"PlainAccount", "Account">>)
    /\ clock = ImportTime
    /\ next_id = 2
    /\ nops = Len(agg.d._unsaved_event_list)
    /\ ncollect = 0
    /\ collected = <<>>
    /\ at_collect = NoAggregate
    /\ replay = NoReplay
    /\ recorders \in RecorderConfigs
    /\ call = NoCall
    /\ returned = <<>>
    /\ lod = NoLod
    /\ memory = NoMemory
    /\ probe = NoProbe
    /\ threads = NoThreads

AllOf(v) == [n \in NameSet |-> v]

\* What the recorders do during one save: a save raises in at most one of
\* them (later saves are never reached), a commit likewise; every rollback may
\* succeed, raise RuntimeError or raise another exception.
SaveOracles ==
    {[save |-> AllOf("ok"), drain |-> AllOf(dr), rollback |-> AllOf("ok"),
      commit |-> cm] :
        dr \in BOOLEAN,
        cm \in {[n \in NameSet |-> IF n = f THEN "raise" ELSE "ok"] :
                   f \in NameSet \cup {"None"}}}
    \cup
    {[save |-> [n \in NameSet |-> IF n = f THEN "raise" ELSE "ok"],
      drain |-> AllOf(dr), rollback |-> rb, commit |-> AllOf("ok")] :
        f \in NameSet, dr \in BOOLEAN,
        rb \in [NameSet -> {"ok", "RuntimeError", "Exception"}]}

GetOracles ==
    [NameSet -> {"found", "None", "AggregateNotFoundError", "Exception"}]

RecorderStoreSave ==
    /\ call.handler = "none"
    /\ \E oracle \in SaveOracles :
         LET r == RecorderStore_save(RecorderStore_init(recorders), agg, oracle)
         IN  /\ agg' = [agg EXCEPT !.d = r.d]
             /\ call' = [NoCall EXCEPT !.handler = "RecorderStore.save",
                            !.before = agg.d._unsaved_event_list,
                            !.calls = r.calls, !.handed = r.handed,
                            !.result = r.result,
                            !.ref_calls = r.calls, !.ref_result = r.result]
    /\ UNCHANGED <<registry, class_init, clock, next_id, nops, ncollect, collected,
                   at_collect, replay, recorders, returned, sideVars>>

ApplicationSave ==
    /\ call.handler = "none"
    /\ \E oracle \in SaveOracles :
         LET r == Application_save(recorders, agg, oracle)
             ref == RecorderStore_save(RecorderStore_init(recorders), agg, oracle)
         IN  /\ agg' = [agg EXCEPT !.d = r.d]
             /\ call' = [NoCall EXCEPT !.handler = "Application.save",
                            !.before = agg.d._unsaved_event_list,
                            !.calls = r.calls, !.handed = r.handed,
                            !.result = r.result,
                            !.ref_calls = ref.calls, !.ref_result = ref.result]
    /\ UNCHANGED <<registry, class_init, clock, next_id, nops, ncollect, collected,
                   at_collect, replay, recorders, returned, sideVars>>

RecorderStoreGet ==
    /\ call.handler = "none"
    /\ \E oracle \in GetOracles, recorder_name \in NameSet \cup {"None", "r0"} :
         LET r == RecorderStore_get(RecorderStore_init(recorders), recorder_name,
                                    oracle)
         IN  call' = [NoCall EXCEPT !.handler = "RecorderStore.get",
                         !.recorder_name = recorder_name,
                         !.calls = r.calls, !.result = r.result,
                         !.ref_calls = r.calls, !.ref_result = r.result]
    /\ UNCHANGED <<aggVars, recorders, sideVars>>

ApplicationGet ==
    /\ call.handler = "none"
    /\ \E oracle \in GetOracles, recorder_name \in NameSet \cup {"None", "r0"},
          recorder \in NameSet \cup {"None"} :
         LET r == Application_get(recorders, recorder, recorder_name, oracle)
             ref == RecorderStore_get(RecorderStore_init(recorders),
                                      recorder_name, oracle)
         IN  call' = [NoCall EXCEPT !.handler = "Application.get",
                         !.recorder = recorder,
                         !.recorder_name = recorder_name,
                         !.calls = r.calls, !.result = r.result,
                         !.ref_calls = ref.calls, !.ref_result = ref.result]
    /\ UNCHANGED <<aggVars, recorders, sideVars>>

\* the caller takes the outcome and goes on
Return ==
    /\ call.handler # "none"
    /\ call' = NoCall
    /\ UNCHANGED <<aggVars, recorders, sideVars>>

NextStore ==
    \/ RecorderStoreSave
    \/ ApplicationSave
    \/ Return

SpecStore == InitStore /\ [][NextStore]_vars

NextGet ==
    \/ RecorderStoreGet
    \/ ApplicationGet
    \/ Return

\* get reads nothing of the aggregate the caller holds: one is enough
InitGet == InitStore /\ agg = [NewAccount EXCEPT !.d = collect(NewAccount.d).d]

SpecGet == InitGet /\ [][NextGet]_vars

\* -------------------------------------------------- bounded cache, in use
\* A LimitedOrderedDict of any capacity (0 is accepted by __init__), filled
\* by add calls on the keys in Ids; the value added is the number of the add.
InitLod ==
    /\ agg = NoAggregate
    /\ class_init = [c \in Classes |-> OriginalInit(c)]
    /\ registry = Registered(<<"PlainAccount", "Account">>)
    /\ clock = ImportTime
    /\ next_id = 1
    /\ nops = 0
    /\ ncollect = 0
    /\ collected = <<>>
    /\ at_collect = NoAggregate
    /\ replay = NoReplay
    /\ recorders = <<>>
    /\ call = NoCall
    /\ returned = <<>>
    /\ \E max_size \in 0..MaxCap :
          lod = [NoLod EXCEPT !.self = LimitedOrderedDict_init(max_size),
                              !.before = LimitedOrderedDict_init(max_size)]
    /\ memory = NoMemory
    /\ probe = NoProbe
    /\ threads = NoThreads

LodAdd(key) ==
    /\ lod.nadds < MaxAdds
    /\ lod' = [self |-> LimitedOrderedDict_add(lod.self, key, lod.nadds + 1),
               before |-> lod.self, key |-> key, value |-> lod.nadds + 1,
               nadds |-> lod.nadds + 1, heap |-> lod.heap]
    /\ UNCHANGED <<aggVars, recorders, call, memory, probe, threads>>

\* the keys of the add calls: one more than the aggregates' ids, so that a key
\* has more than one other key next to it
LodKeys == 1..(MaxIds + 1)

NextLod == \E key \in LodKeys : LodAdd(key)

SpecLod == InitLod /\ [][NextLod]_vars

\* a caller's own pop() on a dictionary that holds a key (popitem raises
\* KeyError on an empty one and changes nothing)
LodPop ==
    /\ lod.self.data # <<>>
    /\ lod' = [lod EXCEPT !.self = LimitedOrderedDict_pop(lod.self),
                          !.before = lod.self]
    /\ UNCHANGED <<aggVars, recorders, call, memory, probe, threads>>

NextLodPop ==
    \/ \E key \in LodKeys : LodAdd(key)
    \/ LodPop

SpecLodPop == InitLod /\ [][NextLodPop]_vars

\* ----------------------------------------------- concurrent callers of add
\* MaxCallers threads call add, once each, on one LimitedOrderedDict of any
\* capacity that is empty or holds one value under key 1; caller t adds the
\* value t under a key of its choice, a UUID object of its own.
Callers == 1..MaxCallers

InitRace ==
    /\ agg = NoAggregate
    /\ class_init = [c \in Classes |-> OriginalInit(c)]
    /\ registry = Registered(<<"PlainAccount", "Account">>)
    /\ clock = ImportTime
    /\ next_id = 1
    /\ nops = 0
    /\ ncollect = 0
    /\ collected = <<>>
    /\ at_collect = NoAggregate
    /\ replay = NoReplay
    /\ recorders = <<>>
    /\ call = NoCall
    /\ returned = <<>>
    /\ \E max_size \in 0..MaxCap :
       \E d \in {LimitedOrderedDict_init(max_size),
                 LimitedOrderedDict_add(LimitedOrderedDict_init(max_size), 1, 0)} :
          lod = [NoLod EXCEPT !.self = [d EXCEPT !.data = OrderedDict_of(d.data)],
                              !.before = d, !.heap = Heap_of(d.data)]
    /\ memory = NoMemory
    /\ probe = NoProbe
    /\ \E keys \in [Callers -> Ids] :
          threads = [t \in Callers |->
                       [pc |-> "177", at |-> "line", key |-> keys[t], id |-> t,
                        value |-> t, value_list |-> NoList, error |-> "None",
                        find |-> NoFind]]

\* no caller has killed the interpreter
Alive == \A t \in Callers : threads[t].pc # "dead"

\* caller t tests `key in self.data`
AddTest(t) ==
    /\ Alive /\ threads[t].pc = "177"
    /\ \E r \in MayDie(lod.self, lod.heap, threads[t],
                      add_test(lod.self, lod.heap, threads[t])) :
          /\ lod' = [lod EXCEPT !.self = r.self, !.heap = r.heap]
          /\ threads' = [threads EXCEPT ![t] = r.th]
    /\ UNCHANGED <<aggVars, recorders, call, memory, probe>>

\* caller t enters self.data.pop(key)
AddPop(t) ==
    /\ Alive /\ threads[t].pc = "178" /\ threads[t].at = "line"
    /\ \E r \in MayDie(lod.self, lod.heap, threads[t],
                      add_pop(lod.self, lod.heap, threads[t])) :
          /\ lod' = [lod EXCEPT !.self = r.self, !.heap = r.heap]
          /\ threads' = [threads EXCEPT ![t] = r.th]
    /\ UNCHANGED <<aggVars, recorders, call, memory, probe>>

\* caller t, inside a pop of line 178 or 184, finds the key's node
PopFind(t) ==
    /\ Alive /\ threads[t].at = "find"
    /\ \E r \in MayDie(lod.self, lod.heap, threads[t],
                      popkey_find(lod.self, lod.heap, threads[t])) :
          /\ lod' = [lod EXCEPT !.self = r.self, !.heap = r.heap]
          /\ threads' = [threads EXCEPT ![t] = r.th]
    /\ UNCHANGED <<aggVars, recorders, call, memory, probe>>

\* caller t, inside a pop, unlinks the node it found
PopClear(t) ==
    /\ Alive /\ threads[t].at = "clear"
    /\ \E r \in MayDie(lod.self, lod.heap, threads[t],
                      popkey_clear(lod.self, lod.heap, threads[t])) :
          /\ lod' = [lod EXCEPT !.self = r.self, !.heap = r.heap]
          /\ threads' = [threads EXCEPT ![t] = r.th]
    /\ UNCHANGED <<aggVars, recorders, call, memory, probe>>

\* caller t, inside a pop, takes the key's entry out of the dict
PopDelete(t) ==
    /\ Alive /\ threads[t].at = "delete"
    /\ \E r \in MayDie(lod.self, lod.heap, threads[t],
                      popkey_delete(lod.self, lod.heap, threads[t])) :
          /\ lod' = [lod EXCEPT !.self = r.self, !.heap = r.heap]
          /\ threads' = [threads EXCEPT ![t] = r.th]
    /\ UNCHANGED <<aggVars, recorders, call, memory, probe>>

\* caller t stores its list
AddStore(t) ==
    /\ Alive /\ threads[t].pc = "182" /\ threads[t].at = "line"
    /\ \E r \in MayDie(lod.self, lod.heap, threads[t],
                      add_store(lod.self, lod.heap, threads[t])) :
          /\ lod' = [lod EXCEPT !.self = r.self, !.heap = r.heap]
          /\ threads' = [threads EXCEPT ![t] = r.th]
    /\ UNCHANGED <<aggVars, recorders, call, memory, probe>>

\* caller t, inside the store of line 182, sees to the key's node and counts
StoreNode(t) ==
    /\ Alive /\ threads[t].at = "node"
    /\ \E r \in MayDie(lod.self, lod.heap, threads[t],
                      add_node(lod.self, lod.heap, threads[t])) :
          /\ lod' = [lod EXCEPT !.self = r.self, !.heap = r.heap]
          /\ threads' = [threads EXCEPT ![t] = r.th]
    /\ UNCHANGED <<aggVars, recorders, call, memory, probe>>

\* caller t enters self.pop()
AddEvict(t) ==
    /\ Alive /\ threads[t].pc = "184" /\ threads[t].at = "line"
    /\ \E r \in MayDie(lod.self, lod.heap, threads[t],
                      add_evict(lod.self, lod.heap, threads[t])) :
          /\ lod' = [lod EXCEPT !.self = r.self, !.heap = r.heap]
          /\ threads' = [threads EXCEPT ![t] = r.th]
    /\ UNCHANGED <<aggVars, recorders, call, memory, probe>>

NextRace ==
    \/ \E t \in Callers : AddTest(t)
    \/ \E t \in Callers : AddPop(t)
    \/ \E t \in Callers : PopFind(t)
    \/ \E t \in Callers : PopClear(t)
    \/ \E t \in Callers : PopDelete(t)
    \/ \E t \in Callers : AddStore(t)
    \/ \E t \in Callers : StoreNode(t)
    \/ \E t \in Callers : AddEvict(t)

SpecRace == InitRace /\ [][NextRace]_vars

\* ------------------------------------- application on memory recorders
\* An Application on two recorders that store events as EventMemoryRecorder
\* does, each with any of the type lists; the save of the first one may
\* raise (a backend that fails) and then stores nothing.
AppNames == {"r1", "r2"}

AppConfigs ==
    { << [name |-> "r1", rank |-> 1, aggregates_types |-> t1],
         [name |-> "r2", rank |-> 2, aggregates_types |-> t2] >> :
      t1 \in TypeLists, t2 \in TypeLists }

AppSaveOracles ==
    { [save |-> [n \in NameSet |-> IF n = f THEN "raise" ELSE "ok"]] :
        f \in {"None", "r1"} }

\* the memories after the save calls listed in handed, in order
RECURSIVE StoreHanded(_, _, _, _)
StoreHanded(mem, handed, calls, i) ==
    IF i > Len(handed) THEN mem
    ELSE StoreHanded(IF calls[i].out = "ok"
                     THEN [mem EXCEPT ![handed[i].rec] =
                              EventMemoryRecorder_save(@, handed[i].events)]
                     ELSE mem,
                     handed, calls, i + 1)

\* what each recorder's get(originator_id) does on its memory
GetOutcomes(mem, originator_id, class_init_) ==
    [n \in NameSet |->
        IF n \in AppNames
        THEN EventMemoryRecorder_get(mem[n], originator_id, class_init_)
        ELSE [out |-> "AggregateNotFoundError", aggregate |-> NoAggregate,
              data |-> EventMemory_init, class_init |-> class_init_]]

\* the record of an application call: the live aggregate when it was made,
\* the recorder calls, the result, the aggregate returned by get, the number
\* of saves so far (2 = more), whether one of them raised, and whether the
\* caller has assigned or deleted an entry of a recorder's memory itself
AppCall(handler, live, r, aggregate, nsaves, failed, written) ==
    [handler |-> handler, live |-> live, calls |-> r.calls, result |-> r.result,
     aggregate |-> aggregate, nsaves |-> nsaves, failed |-> failed,
     written |-> written]

InitApp ==
    /\ agg = NewAccount
    /\ class_init = [c \in Classes |-> OriginalInit(c)]
    /\ registry \in Registries
    /\ clock = ImportTime
    /\ next_id = 2
    /\ nops = 1
    /\ ncollect = 0
    /\ collected = <<>>
    /\ at_collect = NoAggregate
    /\ replay = NoReplay
    /\ recorders \in AppConfigs
    /\ call = AppCall("none", NoAggregate, [calls |-> <<>>, result |-> Result("None", "")],
                      NoAggregate, 0, FALSE, FALSE)
    /\ returned = <<>>
    /\ lod = NoLod
    /\ memory = [n \in AppNames |-> EventMemory_init]
    /\ probe = NoProbe
    /\ threads = NoThreads

\* Application(recorders).save(agg)
AppSave ==
    /\ \E oracle \in AppSaveOracles :
         LET r == Application_save(recorders, agg, oracle)
         IN  /\ agg' = [agg EXCEPT !.d = r.d]
             /\ memory' = StoreHanded(memory, r.handed, r.calls, 1)
             /\ call' = AppCall("Application.save", agg, r, NoAggregate,
                                IF call.nsaves = 0 THEN 1 ELSE 2,
                                call.failed \/ r.result.kind # "None",
                                call.written)
    /\ UNCHANGED <<registry, class_init, clock, next_id, nops, ncollect, collected,
                   at_collect, replay, recorders, returned, lod, probe, threads>>

\* Application(recorders).get(agg._id)
AppGet ==
    /\ \E outs \in {GetOutcomes(memory, agg.d._id, class_init)} :
       \E r \in {Application_get(recorders, "None", "None",
                                 [n \in NameSet |-> outs[n].out])} :
           /\ memory' = [n \in AppNames |->
                            IF \E i \in DOMAIN r.calls : r.calls[i].rec = n
                            THEN outs[n].data ELSE memory[n]]
           /\ class_init' = IF r.result.kind = "Exception"
                            THEN outs[r.result.from].class_init ELSE class_init
           /\ call' = AppCall("Application.get", agg, r,
                              IF r.result.kind = "aggregate"
                              THEN outs[r.result.from].aggregate ELSE NoAggregate,
                              call.nsaves, call.failed, call.written)
    /\ UNCHANGED <<registry, agg, clock, next_id, nops, ncollect, collected, at_collect,
                   replay, recorders, returned, lod, probe, threads>>

\* recorder.memory[agg._id] = value by the caller (EventMemory is a
\* MutableMapping: update and setdefault go through __setitem__)
AppMemorySet ==
    /\ \E n \in AppNames, value \in {<<>>} :
         memory' = [memory EXCEPT ![n] = EventMemory_setitem(@, agg.d._id, value)]
    /\ call' = [call EXCEPT !.written = TRUE]
    /\ UNCHANGED <<registry, agg, class_init, clock, next_id, nops, ncollect,
                   collected, at_collect, replay, recorders, returned, lod, probe,
                   threads>>

\* del recorder.memory[agg._id] by the caller (pop, popitem and clear go
\* through __delitem__); a KeyError leaves the memory as it was
AppMemoryDel ==
    /\ \E n \in AppNames :
       \E r \in {EventMemory_delitem(memory[n], agg.d._id)} :
         /\ memory' = [memory EXCEPT ![n] = r.data]
         /\ call' = [call EXCEPT !.written = @ \/ r.ok]
    /\ UNCHANGED <<registry, agg, class_init, clock, next_id, nops, ncollect,
                   collected, at_collect, replay, recorders, returned, lod, probe,
                   threads>>

\* agg.collect() by the caller, the list returned handed to nobody
AppCollect ==
    /\ agg' = [agg EXCEPT !.d = collect(agg.d).d]
    /\ ncollect' = IF ncollect = 0 THEN 1 ELSE 2
    /\ UNCHANGED <<registry, class_init, clock, next_id, nops, collected,
                   at_collect, replay, recorders, call, returned, sideVars>>

NextApp ==
    \/ \E name \in {"add", "subtract"} : OperateAccount(name)
    \/ AppSave
    \/ AppGet
    \/ AppMemorySet
    \/ AppMemoryDel
    \/ AppCollect

SpecApp == InitApp /\ [][NextApp]_vars

\* ------------------------------------------------- calls on given arguments
\* Events a caller may hand to reconstruct: of aggregate 1, any version and
\* timestamp, and of six kinds: the construction event of Account, its add,
\* an event whose name no class registers, one whose type no class registers,
\* an add whose payload does not fit the method (its mutator raises
\* TypeError), and the deposit of a PlainAccount.  Which of the first two and
\* the last are found depends on the class statement executed last.
EventKinds ==
    { [type_ |-> "Account", name |-> "creation", event_kwargs |-> [name |-> "test"]],
      [type_ |-> "Account", name |-> "add", event_kwargs |-> [amount |-> 1]],
      [type_ |-> "Account", name |-> "rename", event_kwargs |-> [name |-> "test"]],
      [type_ |-> "Ghost", name |-> "creation", event_kwargs |-> [name |-> "test"]],
      [type_ |-> "Account", name |-> "add", event_kwargs |-> [name |-> "test"]],
      [type_ |-> Qualname("PlainAccount"), name |-> "deposit",
       event_kwargs |-> [amount |-> 1]] }

GivenEvents ==
    { Event(k.name, k.type_, t, 1, k.event_kwargs, v) :
        k \in EventKinds, t \in Times, v \in 1..MaxEvents }

GivenLists ==
    UNION { [1..n -> GivenEvents] : n \in 1..MaxEvents }

\* The aggregate a caller may pass to reconstruct: none, or Account 1 as it
\* is after construction and collect.
GivenAggregates ==
    { NoAggregate, [NewAccount EXCEPT !.d = collect(NewAccount.d).d] }

InitProbe ==
    /\ agg = NoAggregate
    /\ class_init = [c \in Classes |-> OriginalInit(c)]
    /\ registry \in Registries
    /\ clock = ImportTime
    /\ next_id = 1
    /\ nops = 0
    /\ ncollect = 0
    /\ collected = <<>>
    /\ at_collect = NoAggregate
    /\ replay = NoReplay
    /\ recorders = <<>>
    /\ call = NoCall
    /\ returned = <<>>
    /\ lod = NoLod
    /\ memory = NoMemory
    /\ probe = NoProbe
    /\ threads = NoThreads

\* StandartReconstructor().reconstruct(list_event, aggregate, priority)
ProbeReconstruct ==
    /\ probe.op = "none"
    /\ \E list_event \in GivenLists, aggregate \in GivenAggregates,
          priority \in Priorities \cup {"None"} :
       \E result \in {reconstruct(list_event, aggregate, priority, class_init)} :
         /\ probe' = [op |-> "reconstruct", list_event |-> list_event,
                      aggregate |-> aggregate, priority |-> priority,
                      class_init |-> class_init, result |-> result]
         /\ class_init' = result.class_init
    /\ UNCHANGED replayFrame

\* reconstruct on two events, and then on the same two in the other order;
\* each call is given its own copy of the aggregate
ProbeSwapped ==
    /\ probe.op = "none"
    /\ \E e1, e2 \in GivenEvents, aggregate \in GivenAggregates,
          priority \in Priorities \cup {"None"} :
       \E result \in {reconstruct(<<e1, e2>>, aggregate, priority, class_init)} :
       \E swapped_result \in {reconstruct(<<e2, e1>>, aggregate, priority,
                                           result.class_init)} :
         /\ probe' = [op |-> "swapped", list_event |-> <<e1, e2>>,
                      aggregate |-> aggregate, priority |-> priority,
                      class_init |-> class_init,
                      result |-> result, swapped_result |-> swapped_result]
         /\ class_init' = swapped_result.class_init
    /\ UNCHANGED replayFrame

\* Receivers of Account.add / Account.subtract: Account 1, and objects of
\* another class that carry the attributes the wrapper and the methods touch.
GivenReceivers ==
    { [NewAccount EXCEPT !.d = collect(NewAccount.d).d] } \cup
    { [cls |-> "object",
       d |-> [balance |-> b, _version |-> v, _unsaved_event_list |-> <<>>,
              _id |-> 1]] : b \in {0, 1}, v \in 0..MaxEvents }

\* Account.add(self, amount, timestamp) / Account.subtract(...) on a receiver
ProbeWrapper ==
    /\ probe.op = "none"
    /\ \E self \in GivenReceivers, event_name \in {"add", "subtract"},
          amount \in Amounts, timestamp \in Times :
         probe' = [op |-> "wrapper", self |-> self, event_name |-> event_name,
                   result |-> wrapper_checked(self, "Account", event_name,
                                  [amount |-> amount, timestamp |-> timestamp],
                                  clock)]
    /\ UNCHANGED <<aggVars, recorders, call, lod, memory, threads>>

\* Account 1 after its construction and n - 1 calls of add(1), nothing
\* collected; the i-th operation is stamped i ("rising"), ImportTime ("same"),
\* MaxTime for the construction and ImportTime, the default of add's
\* timestamp parameter, after it ("falling"), or as rising with the stamps of
\* the second and third operation exchanged ("swapped").
StampOf(i, stamps) ==
    CASE stamps = "rising" -> i
      [] stamps = "falling" -> IF i = 1 THEN MaxTime ELSE ImportTime
      [] stamps = "swapped" -> IF i = 2 THEN 3 ELSE IF i = 3 THEN 2 ELSE i
      [] OTHER -> ImportTime

RECURSIVE LiveAccount(_, _)
LiveAccount(n, stamps) ==
    IF n = 1
    THEN AggregateMeta_call("Account", "wrapper", CtorArgs("Account"), 1,
                            StampOf(1, stamps)).aggregate
    ELSE LET a == LiveAccount(n - 1, stamps)
         IN  [a EXCEPT !.d = wrapper("Account", "add", a.d,
                                [amount |-> 1, timestamp |-> StampOf(n, stamps)],
                                StampOf(n, stamps)).d]

RECURSIVE AddEvents(_, _, _)
AddEvents(self, events, keep) ==
    IF events = <<>> THEN self
    ELSE AddEvents(IF events[1].version \in keep THEN add_event(self, events[1])
                                                 ELSE self,
                   Tail(events), keep)

\* An EventAggregateMemory filled for Account 1 with n events: the snapshot
\* taken at version V (none when V = 0) and the events of the versions kept.
FilledMemory(n, V, keep, stamps) ==
    LET live == LiveAccount(n, stamps)
        snap == LiveAccount(V, stamps)
        m0 == IF V = 0 THEN EventAggregateMemory_init
              ELSE add_aggregate(EventAggregateMemory_init,
                                 [snap EXCEPT !.d = collect(snap.d).d])
    IN  AddEvents(m0, live.d._unsaved_event_list, keep)

\* EventAggregateMemory.get(1, max_version=..., priority=...) on a filled memory
ProbeMemoryGet ==
    /\ probe.op = "none"
    /\ \E n \in 1..(MaxEvents + 1), stamps \in {"same", "rising"},
          priority \in Priorities :
       \E V \in 0..n, max_version \in 0..n :
       \E keep \in {1..n, ((V + 1)..n) \cup ({V - 1} \cap (1..n))} :
         probe' = [op |-> "memory_get", n |-> n, V |-> V, keep |-> keep,
                   stamps |-> stamps, max_version |-> max_version,
                   result |-> EventAggregateMemory_get(
                                  FilledMemory(n, V, keep, stamps), 1, max_version,
                                  0, NoAggregate, priority, class_init)]
    /\ UNCHANGED <<aggVars, recorders, call, lod, memory, threads>>

\* Account 1 as it was after its v-th operation, its events collected
SnapshotAt(v, stamps) ==
    [LiveAccount(v, stamps) EXCEPT !.d = collect(LiveAccount(v, stamps).d).d]

RECURSIVE AddSnapshots(_, _, _, _)
AddSnapshots(self, v, snaps, stamps) ==
    IF v = 0 THEN self
    ELSE LET m == AddSnapshots(self, v - 1, snaps, stamps)
         IN  IF v \in snaps THEN add_aggregate(m, SnapshotAt(v, stamps)) ELSE m

\* EventAggregateMemory.get(1, max_version, max_timestamp, priority=...) on a
\* memory that holds snapshots of Account 1 at the versions snaps and its
\* events of the versions keep (all of them, or the construction event only)
ProbeSnapshots ==
    /\ probe.op = "none"
    /\ \E n \in 2..(MaxEvents + 1),
          stamps \in {"same", "rising", "falling", "swapped"},
          priority \in Priorities :
       \E snaps \in SUBSET (1..n) \ {{}}, keep \in {{1}, 1..n},
          max_version \in 0..n, max_timestamp \in 0..MaxTime :
         probe' = [op |-> "snapshots", n |-> n, snaps |-> snaps, keep |-> keep,
                   stamps |-> stamps, max_version |-> max_version,
                   max_timestamp |-> max_timestamp, priority |-> priority,
                   result |-> EventAggregateMemory_get(
                                  AddEvents(AddSnapshots(EventAggregateMemory_init,
                                                         n, snaps, stamps),
                                            LiveAccount(n, stamps).d._unsaved_event_list,
                                            keep),
                                  1, max_version, max_timestamp, NoAggregate,
                                  priority, class_init)]
    /\ UNCHANGED <<aggVars, recorders, call, lod, memory, threads>>

\* Receivers of a decorated operation: Account 1 with one or two events in
\* its buffer, Account 1 collected, Account 1 after `del a.balance` (the body
\* of add raises AttributeError), and a PlainAccount.
CaptureReceivers ==
    { LiveAccount(n, stamps) : n \in 1..MaxEvents, stamps \in {"same", "rising"} }
    \cup { [NewAccount EXCEPT !.d = collect(NewAccount.d).d],
           [NewAccount EXCEPT !.d = DelKey(NewAccount.d, "balance")],
           NewPlain }

\* sig.bind(self, *args, **kwargs) with apply_defaults, self popped: the
\* parameters of add / subtract are amount and timestamp (given, or its
\* default ImportTime), the parameter of deposit / withdraw is amount
BoundArguments(cls) ==
    IF cls = "Account"
    THEN { [amount |-> a, timestamp |-> t] : a \in Amounts, t \in Times }
    ELSE { [amount |-> a] : a \in Amounts }

\* self.add(...) / self.subtract(...) / self.deposit(...) / self.withdraw(...)
ProbeCapture ==
    /\ probe.op = "none"
    /\ \E self \in CaptureReceivers, now \in Times :
       \E event_name \in ClassStatement(self.cls).event_methods \ {"creation"},
          arg_dict \in BoundArguments(self.cls) :
         probe' = [op |-> "capture", self |-> self, event_name |-> event_name,
                   arg_dict |-> arg_dict, now |-> now,
                   result |-> wrapper_checked(self, Qualname(self.cls), event_name,
                                              arg_dict, now)]
    /\ UNCHANGED <<aggVars, recorders, call, lod, memory, threads>>

\* Events a caller may hand to Event.mutate: those of EventKinds, for any
\* originator
MutateEvents ==
    { Event(k.name, k.type_, t, id, k.event_kwargs, v) :
        k \in EventKinds, t \in Times, id \in Ids, v \in 1..MaxEvents }

\* event.mutate(aggregate)
ProbeMutate ==
    /\ probe.op = "none"
    /\ \E ev \in MutateEvents, aggregate \in GivenAggregates :
       \E result \in {mutate(ev, aggregate, class_init)} :
         /\ probe' = [op |-> "mutate", ev |-> ev, aggregate |-> aggregate,
                      class_init |-> class_init, result |-> result]
         /\ class_init' = result.class_init
    /\ UNCHANGED replayFrame

\* EventAggregateMemory.get called twice with the same arguments, nothing
\* added in between, on a memory that holds snapshots of Account 1 at the
\* versions snaps (each a copy of its own) and its events of the versions keep
ProbeGetTwice ==
    /\ probe.op = "none"
    /\ \E n \in 2..(MaxEvents + 1), stamps \in {"same", "rising"},
          priority \in Priorities :
       \E snaps \in SUBSET (1..n) \ {{}}, keep \in {{1}, 1..n},
          max_version \in 0..n :
       \E before \in {AddEvents(AddSnapshots(EventAggregateMemory_init,
                                             n, snaps, stamps),
                                LiveAccount(n, stamps).d._unsaved_event_list,
                                keep)} :
       \E after \in {EventAggregateMemory_get_stored(before, 1, max_version, 0,
                                                     priority, class_init)} :
         probe' = [op |-> "get_twice", n |-> n, snaps |-> snaps, keep |-> keep,
                   stamps |-> stamps, max_version |-> max_version,
                   max_timestamp |-> 0, priority |-> priority,
                   before |-> before, after |-> after,
                   first |-> EventAggregateMemory_get(before, 1, max_version, 0,
                                 NoAggregate, priority, class_init),
                   second |-> EventAggregateMemory_get(after, 1, max_version, 0,
                                  NoAggregate, priority, class_init)]
    /\ UNCHANGED <<aggVars, recorders, call, lod, memory, threads>>

\* a LimitedOrderedDict of the default capacity after add calls on the given
\* keys, the value added being the number of the add
RECURSIVE AddedKeys(_)
AddedKeys(keys) ==
    IF keys = <<>> THEN LimitedOrderedDict_init(DefaultMaxSize)
    ELSE LimitedOrderedDict_add(AddedKeys(SubSeq(keys, 1, Len(keys) - 1)),
                                keys[Len(keys)], Len(keys))

\* LimitedOrderedDict.get(key, default) after some adds
ProbeLodGet ==
    /\ probe.op = "none"
    /\ \E keys \in UNION {[1..n -> Ids] : n \in 0..MaxEvents}, key \in Ids,
          default \in {NoneValue, ListValue(<<>>)} :
         probe' = [op |-> "lod_get", self |-> AddedKeys(keys), key |-> key,
                   default |-> default,
                   result |-> LimitedOrderedDict_get(AddedKeys(keys), key, default)]
    /\ UNCHANGED <<aggVars, recorders, call, lod, memory, threads>>

\* the caller takes the outcome and goes on
ProbeReturn ==
    /\ probe.op # "none"
    /\ probe' = NoProbe
    /\ UNCHANGED <<aggVars, recorders, call, lod, memory, threads>>

NextProbe ==
    \/ ProbeReconstruct
    \/ ProbeSwapped
    \/ ProbeWrapper
    \/ ProbeMemoryGet
    \/ ProbeSnapshots
    \/ ProbeCapture
    \/ ProbeMutate
    \/ ProbeLodGet
    \/ ProbeGetTwice
    \/ ProbeReturn

SpecProbe == InitProbe /\ [][NextProbe]_vars

\* ------------------------------------ replay next to live construction
\* Event.mutate(None) as the steps a caller takes between the points where
\* another caller may run.  th is the caller's [role, pc, ev, original_init,
\* result, error]; each step gives [class_init, th].
\* lines 265-273: the lookups (KeyError on an unregistered type or name),
\* original_init = aggregate_class.__init__ and aggregate_class.__init__ = func
mutate_swap(class_init_, th) ==
    IF \/ th.ev.type_ \notin DOMAIN event_function_registry
       \/ th.ev.name \notin event_function_registry[th.ev.type_]
       \/ th.ev.type_ \notin DOMAIN class_registry
    THEN [class_init |-> class_init_,
          th |-> [th EXCEPT !.pc = "done", !.error = "KeyError"]]
    ELSE [class_init |->
              [class_init_ EXCEPT ![class_registry[th.ev.type_]] = th.ev.name],
          th |-> [th EXCEPT !.pc = "274",
                            !.original_init =
                                class_init_[class_registry[th.ev.type_]]]]

\* lines 274-275: AggregateMeta.__call__ gives the instance _id = uuid4()
\* (id) and runs the __init__ the class has now; when that is the wrapper
\* again (another caller has put it back) the wrapper records an event for
\* the uuid4 id, stamped datetime.now() (now).  Only then does line 275
\* assign the event's originator_id to _id
mutate_call(class_init_, th, id, now) ==
    LET r == AggregateMeta_call(class_registry[th.ev.type_],
                                class_init_[class_registry[th.ev.type_]],
                                th.ev.event_kwargs, id, now)
    IN  [class_init |-> class_init_,
         th |-> IF r.ok
                THEN [th EXCEPT !.pc = "276",
                                !.result = [r.aggregate EXCEPT !.d =
                                    SetAttr(r.aggregate.d, "_id", th.ev.originator_id)]]
                ELSE [th EXCEPT !.pc = "done", !.error = "Exception"]]

\* lines 276-278: __init__ is put back and the version is assigned
mutate_restore(class_init_, th) ==
    [class_init |->
         [class_init_ EXCEPT ![class_registry[th.ev.type_]] = th.original_init],
     th |-> [th EXCEPT !.pc = "done",
                       !.result = [th.result EXCEPT !.d =
                                     SetAttr(th.result.d, "_version", th.ev.version)]]]

\* Account(name="test") by a caller: AggregateMeta.__call__ line 84 runs the
\* __init__ the class has at that moment
live_call(class_init_, th, id, now) ==
    LET r == AggregateMeta_call("Account", class_init_["Account"],
                                CtorArgs("Account"), id, now)
    IN  IF r.ok THEN [th EXCEPT !.pc = "done", !.result = r.aggregate]
                ELSE [th EXCEPT !.pc = "done", !.error = "Exception"]

NoEvent == [name |-> "None"]

\* the events replayed: of any kind of EventKinds, for any originator and
\* version; their originators were given their ids before the callers start
SwapEvents ==
    { Event(k.name, k.type_, ImportTime, id, k.event_kwargs, v) :
        k \in EventKinds, id \in Ids, v \in 1..MaxEvents }

\* what a caller is about to do: replay an event from no aggregate, or
\* construct an Account
SwapCallers ==
    { [role |-> "mutate", pc |-> "273", ev |-> ev, original_init |-> "None",
       result |-> NoAggregate, error |-> "None"] : ev \in SwapEvents }
    \cup { [role |-> "construct", pc |-> "84", ev |-> NoEvent,
            original_init |-> "None", result |-> NoAggregate, error |-> "None"] }

InitSwap ==
    /\ agg = NoAggregate
    /\ class_init = [c \in Classes |-> OriginalInit(c)]
    /\ registry = Registered(<<"PlainAccount", "Account">>)
    /\ clock = ImportTime
    /\ next_id = MaxIds + 1
    /\ nops = 0
    /\ ncollect = 0
    /\ collected = <<>>
    /\ at_collect = NoAggregate
    /\ replay = NoReplay
    /\ recorders = <<>>
    /\ call = NoCall
    /\ returned = <<>>
    /\ lod = NoLod
    /\ memory = NoMemory
    /\ probe = NoProbe
    /\ threads \in [Callers -> SwapCallers]

\* caller t, replaying, installs the event's function as __init__
MutateSwap(t) ==
    /\ threads[t].pc = "273"
    /\ class_init' = mutate_swap(class_init, threads[t]).class_init
    /\ threads' = [threads EXCEPT ![t] = mutate_swap(class_init, threads[t]).th]
    /\ UNCHANGED <<registry, agg, clock, next_id, nops, ncollect, collected, at_collect,
                   replay, recorders, call, returned, lod, memory, probe>>

\* caller t, replaying, constructs the instance: a uuid4 is drawn at
\* aggregate.py line 83 whatever __init__ is, and the wrapper, when it is
\* the one that runs, reads datetime.now()
MutateCall(t) ==
    /\ threads[t].pc = "274"
    /\ \E now \in clock..MaxTime :
         /\ threads' = [threads EXCEPT ![t] =
                           mutate_call(class_init, threads[t], next_id, now).th]
         /\ clock' = IF class_init[class_registry[threads[t].ev.type_]] = "wrapper"
                     THEN now ELSE clock
    /\ next_id' = next_id + 1
    /\ UNCHANGED <<registry, agg, class_init, nops, ncollect, collected, at_collect,
                   replay, recorders, call, returned, lod, memory, probe>>

\* caller t, replaying, puts __init__ back
MutateRestore(t) ==
    /\ threads[t].pc = "276"
    /\ class_init' = mutate_restore(class_init, threads[t]).class_init
    /\ threads' = [threads EXCEPT ![t] = mutate_restore(class_init, threads[t]).th]
    /\ UNCHANGED <<registry, agg, clock, next_id, nops, ncollect, collected, at_collect,
                   replay, recorders, call, returned, lod, memory, probe>>

\* caller t constructs an Account: a uuid4 is drawn, and the wrapper, when
\* it is the one that runs, reads datetime.now()
LiveConstruct(t) ==
    /\ threads[t].pc = "84"
    /\ \E now \in clock..MaxTime :
         /\ threads' = [threads EXCEPT ![t] =
                           live_call(class_init, threads[t], next_id, now)]
         /\ clock' = IF class_init["Account"] = "wrapper" THEN now ELSE clock
    /\ next_id' = next_id + 1
    /\ UNCHANGED <<registry, agg, class_init, nops, ncollect, collected, at_collect,
                   replay, recorders, call, returned, lod, memory, probe>>

NextSwap ==
    \/ \E t \in Callers : MutateSwap(t)
    \/ \E t \in Callers : MutateCall(t)
    \/ \E t \in Callers : MutateRestore(t)
    \/ \E t \in Callers : LiveConstruct(t)

SpecSwap == InitSwap /\ [][NextSwap]_vars

\* ------------------------------------------------------------- properties
Buffer == agg.d._unsaved_event_list

\* the registries hold cls and its event methods: no class statement of the
\* same name was executed after that of cls
Registers(cls) ==
    /\ Qualname(cls) \in DOMAIN class_registry
    /\ class_registry[Qualname(cls)] = cls
    /\ event_function_registry[Qualname(cls)] = ClassStatement(cls).event_methods

\* the recorder of a name, its rank, and whether its type list holds the
\* runtime class of agg or a base class of it
RecorderOf(n) == recorders[CHOOSE i \in DOMAIN recorders : recorders[i].name = n]
RankOf(n) == RecorderOf(n).rank
Supports(n) ==
    \E j \in DOMAIN RecorderOf(n).aggregates_types :
        RecorderOf(n).aggregates_types[j] \in {agg.cls, "Aggregate"}
Supporters == {n \in NameSet : Supports(n)}

CallsOf(op) == {i \in DOMAIN call.calls : call.calls[i].op = op}
Received(n, op) == \E i \in CallsOf(op) : call.calls[i].rec = n

\* C1: on a freshly constructed aggregate that has not been collected, after
\* N event-decorated operations (the decorated constructor included) the
\* version is N, the buffer holds N events and the i-th has version i.
C1_VersionCountsOperations ==
    (agg.cls # "None" /\ ncollect = 0) =>
        /\ agg.d._version = nops
        /\ Len(Buffer) = nops
        /\ \A i \in 1..Len(Buffer) : Buffer[i].version = i

C1_Witness ==
    /\ agg.cls = "Account" /\ ncollect = 0 /\ nops = 3
    /\ Buffer[1].name = "creation" /\ Buffer[3].version = 3

\* C2: when the constructor is an event, reconstructing from None over the
\* first collected list (default priority) gives an aggregate equal, by
\* Aggregate.__eq__, to the live aggregate at the moment of collection (the
\* class being the one registered under its name).
C2_ReplayEqualsLive ==
    (/\ replay.status # "none" /\ replay.priority = "None"
     /\ ncollect = 1 /\ at_collect.cls = "Account" /\ Registers("Account"))
    => /\ replay.status = "ok"
       /\ Aggregate_eq(replay.aggregate, at_collect)

\* C3: in RecorderStore.save, when a save raises after an earlier-ranked save
\* succeeded, every selected recorder receives rollback, the caller receives
\* RecorderSavingError and no recorder receives commit.
C3_RollbackAllOnSaveFailure ==
    (/\ call.handler = "RecorderStore.save"
     /\ \E i \in CallsOf("save") : i > 1 /\ call.calls[i].out = "raise")
    => /\ \A n \in Supporters : Received(n, "rollback")
       /\ call.result.kind = "RecorderSavingError"
       /\ CallsOf("commit") = {}

\* C4: in RecorderStore.save, a rollback that raises, whatever it raises, is
\* swallowed: every selected recorder still receives rollback and the caller
\* receives RecorderSavingError for the save that failed.
C4_RollbackFailureSwallowed ==
    (/\ call.handler = "RecorderStore.save"
     /\ \E i \in CallsOf("rollback") : call.calls[i].out # "ok")
    => /\ \A n \in Supporters : Received(n, "rollback")
       /\ call.result.kind = "RecorderSavingError"
       /\ \E i \in CallsOf("save") :
              call.calls[i].out = "raise" /\ call.result.from = call.calls[i].rec

\* C5: RecorderStore.save calls save on the selected recorders one at a time
\* in ascending rank order, and commit on each, in the same order, only after
\* the save of every selected recorder has returned.
C5_SaveThenCommitInRankOrder ==
    call.handler = "RecorderStore.save" =>
        LET saves == CallsOf("save")
            commits == CallsOf("commit")
        IN  /\ \A i, j \in saves :
                  i < j => /\ call.calls[i].rec # call.calls[j].rec
                           /\ RankOf(call.calls[i].rec) <= RankOf(call.calls[j].rec)
                           /\ call.calls[i].out = "ok"
            /\ \A i \in saves : \A k \in 1..i : k \in saves
            /\ \A i \in commits :
                  /\ \A n \in Supporters :
                        \E k \in saves : /\ k < i /\ call.calls[k].rec = n
                                         /\ call.calls[k].out = "ok"
                  /\ \A j \in commits :
                        i < j => \E k, l \in saves :
                                    /\ k < l
                                    /\ call.calls[k].rec = call.calls[i].rec
                                    /\ call.calls[l].rec = call.calls[j].rec
            /\ (\A i \in saves : call.calls[i].out = "ok")
                  => \A n \in Supporters : Received(n, "save")
            /\ call.result.kind = "None"
                  => \A n \in Supporters : Received(n, "commit")

C5_Witness ==
    /\ call.handler = "RecorderStore.save"
    /\ call.result.kind = "None"
    /\ Len(call.calls) = 6
    /\ call.calls[1].rec = "r3" /\ call.calls[3].rec = "r1"
    /\ call.calls[4] = Call("r3", "commit", "ok")
    /\ call.calls[6] = Call("r1", "commit", "ok")

\* C6: a save calls save, commit or rollback only on recorders whose type
\* list holds the aggregate's runtime type; every such recorder is among the
\* ones it calls, and a recorder that does not support the type gets no call.
C6_OnlySupportingRecordersCalled ==
    call.handler \in {"RecorderStore.save", "Application.save"} =>
        /\ \A i \in DOMAIN call.calls : Supports(call.calls[i].rec)
        /\ \A i \in DOMAIN call.handed : Supports(call.handed[i].rec)
        /\ call.result.kind = "None" => \A n \in Supporters : Received(n, "save")
        /\ call.result.kind = "RecorderSavingError"
              => \A n \in Supporters : Received(n, "rollback")

C6_Witness ==
    /\ call.handler = "RecorderStore.save"
    /\ Supporters = {"r1", "r3"}
    /\ Received("r1", "save") /\ Received("r3", "commit")

\* C7: one save collects the unsaved events once: every selected recorder is
\* handed the complete sequence the buffer held when save was called, and the
\* buffer is empty afterwards.
C7_CollectedOnceAndHandedToAll ==
    (/\ call.handler \in {"RecorderStore.save", "Application.save"}
     /\ call.result.kind = "None")
    => /\ \A n \in Supporters :
              \E i \in DOMAIN call.handed : call.handed[i].rec = n
       /\ \A i \in DOMAIN call.handed : call.handed[i].events = call.before
       /\ Buffer = <<>>

\* C8: RecorderStore.get without a recorder name asks the recorders in
\* ascending rank order; AggregateNotFoundError (or a None) moves on, any
\* other error propagates at once, the first aggregate found is returned, and
\* None is returned when no recorder has the aggregate.
C8_RankedFallbackGet ==
    (call.handler = "RecorderStore.get" /\ call.recorder_name = "None") =>
        LET c == call.calls
            n == Len(c)
        IN  /\ n >= 1
            /\ \A i \in 1..n : c[i].op = "get"
            /\ \A i, j \in 1..n :
                  i < j => c[i].rec # c[j].rec /\ RankOf(c[i].rec) <= RankOf(c[j].rec)
            /\ \A i \in 1..n : \A m \in NameSet :
                  RankOf(m) < RankOf(c[i].rec) => \E k \in 1..(i - 1) : c[k].rec = m
            /\ \A i \in 1..(n - 1) : c[i].out \in {"AggregateNotFoundError", "None"}
            /\ c[n].out = "found" => call.result = Result("aggregate", c[n].rec)
            /\ c[n].out = "Exception" => call.result = Result("Exception", c[n].rec)
            /\ c[n].out \in {"AggregateNotFoundError", "None"}
                  => /\ call.result = Result("None", "")
                     /\ {c[i].rec : i \in 1..n} = NameSet

C8_Witness ==
    /\ call.handler = "RecorderStore.get" /\ call.recorder_name = "None"
    /\ call.calls = <<Call("r2", "get", "AggregateNotFoundError"),
                      Call("r3", "get", "found")>>
    /\ call.result = Result("aggregate", "r3")

\* C9: get with a recorder_name asks only the recorder of that name and
\* returns or propagates what it gives, in RecorderStore.get and in
\* Application.get.
C9_NamedGetAsksOnlyThatRecorder ==
    (/\ call.handler \in {"RecorderStore.get", "Application.get"}
     /\ call.recorder = "None"
     /\ call.recorder_name \in NameSet)
    => /\ Len(call.calls) = 1
       /\ call.calls[1].rec = call.recorder_name
       /\ call.result =
            CASE call.calls[1].out = "found" -> Result("aggregate", call.recorder_name)
              [] call.calls[1].out = "None" -> Result("None", "")
              [] OTHER -> Result(call.calls[1].out, call.recorder_name)

\* C10: Application.save and Application.get make exactly the recorder calls
\* of RecorderStore.save and RecorderStore.get on the same recorders, and give
\* the same result or error.
C10_ApplicationDelegates ==
    (call.handler \in {"Application.save", "Application.get"}
     /\ call.recorder = "None")
    => /\ call.calls = call.ref_calls
       /\ call.result = call.ref_result

\* the number of values a LimitedOrderedDict stores, over all its keys
RECURSIVE TotalValues(_)
TotalValues(data) ==
    IF data = <<>> THEN 0 ELSE Len(data[1].values) + TotalValues(Tail(data))

KeysOf(data) == {data[i].key : i \in DOMAIN data}

\* C11: after any sequence of add calls the number of values stored over all
\* keys is at most max_size.
C11_TotalWithinCapacity ==
    TotalValues(lod.self.data) <= lod.self.max_size

\* C12: an add that keeps the total at or below the capacity evicts nothing;
\* the add that would bring the total above it evicts exactly the least
\* recently touched key with its whole list, and the value just added is
\* stored afterwards (stated for the capacities of at least 1).
C12_EvictsOnlyWhenOverCapacity ==
    (lod.nadds > 0 /\ lod.self.max_size >= 1) =>
        LET old == lod.before.data
            new == lod.self.data
            grown == Append(RemoveKey(old, lod.key),
                            [key |-> lod.key,
                             values |-> Append(IF HasKey(old, lod.key)
                                               THEN ValuesOf(old, lod.key)
                                               ELSE <<>>, lod.value)])
        IN  IF TotalValues(old) + 1 <= lod.self.max_size
            THEN new = grown
            ELSE /\ old # <<>>
                 /\ KeysOf(new) = (KeysOf(old) \cup {lod.key}) \ {old[1].key}
                 /\ HasKey(new, lod.key)
                 /\ lod.value = ValuesOf(new, lod.key)[Len(ValuesOf(new, lod.key))]

\* C13: for a fixed priority, reconstruct gives the same final aggregate for
\* every order of the same events, events that tie on version and timestamp
\* included.
C13_OrderOfInputIrrelevant ==
    probe.op = "swapped" =>
        /\ probe.result.ok = probe.swapped_result.ok
        /\ probe.result.aggregate = probe.swapped_result.aggregate

\* an event whose mutator cannot be found, or raises on any Account
Unappliable(ev) ==
    \/ ev.type_ \notin DOMAIN event_function_registry
    \/ ev.name \notin event_function_registry[ev.type_]
    \/ ~original_func(ev.type_, ev.name, NewAccount.d, ev.event_kwargs).ok

\* C16: when the lookup or the application of an event fails, at whatever
\* position in the order, reconstruct raises ReconstructionError and returns
\* no aggregate.
C16_FailureAbortsReconstruction ==
    probe.op = "reconstruct" =>
        /\ (\E i \in DOMAIN probe.list_event : Unappliable(probe.list_event[i]))
              => ~probe.result.ok
        /\ (probe.aggregate = NoAggregate
             /\ probe.result.list_event[1].name # "creation") => ~probe.result.ok
        /\ ~probe.result.ok => probe.result.aggregate = NoAggregate

C16_Witness ==
    /\ probe.op = "reconstruct"
    /\ Len(probe.list_event) = MaxEvents
    /\ probe.result.list_event[1].name = "creation"
    /\ \A i \in 1..(MaxEvents - 1) : ~Unappliable(probe.result.list_event[i])
    /\ Unappliable(probe.result.list_event[MaxEvents])
    /\ ~probe.result.ok

\* C17: an event-decorated operation called on a receiver that is not an
\* Aggregate raises NotAnAggregateError and leaves the receiver as it was: no
\* version change, no event buffered, the body not run.
C17_NonAggregateRejected ==
    (probe.op = "wrapper" /\ probe.self.cls \notin Classes) =>
        /\ probe.result.error = "NotAnAggregateError"
        /\ probe.result.self = probe.self

C17_Witness ==
    /\ probe.op = "wrapper" /\ probe.self.cls = "object"
    /\ probe.event_name = "add" /\ probe.self.d._version = 1
    /\ probe.result.error = "NotAnAggregateError"

\* C14: with a snapshot at version V, events V+1..n and one stale event of
\* version V-1 stamped no later than the snapshot, EventAggregateMemory.get
\* applies exactly the events V+1..n to the snapshot: the result has version
\* n and the balance of n - 1 adds.
C14_SnapshotMergeSkipsStale ==
    (/\ probe.op = "memory_get" /\ probe.V >= 2 /\ probe.V < probe.n
     /\ probe.keep = ((probe.V + 1)..probe.n) \cup {probe.V - 1}
     /\ probe.stamps = "rising" /\ probe.max_version = 0)
    => /\ probe.result.ok
       /\ probe.result.value.d._version = probe.n
       /\ probe.result.value.d.balance = probe.n - 1

\* C15: when events are stored for the id and no snapshot is stored, or none
\* passes the max_version filter, EventAggregateMemory.get rebuilds the
\* aggregate from the events alone, construction event included.
C15_NoSnapshotReplaysFromScratch ==
    (/\ probe.op = "memory_get" /\ probe.keep = 1..probe.n
     /\ \/ probe.V = 0
        \/ probe.max_version # 0 /\ probe.max_version < probe.V)
    => /\ probe.result.ok
       /\ probe.result.value.cls = "Account"
       /\ probe.result.value.d._id = 1
       /\ probe.result.value.d._version = probe.n
       /\ probe.result.value.d.balance = probe.n - 1

\* C18: collect returns all the buffered events in emission order and leaves
\* the buffer empty: the events the collects returned so far, followed by the
\* events still buffered, are the events 1..nops emitted, each once (so a
\* collect right after a collect returns nothing), and the last collect's
\* output is the tail of what was returned.
C18_CollectDrainsEverythingOnce ==
    agg.cls # "None" =>
        /\ returned \o [i \in 1..Len(Buffer) |-> Buffer[i].version]
              = [i \in 1..nops |-> i]
        /\ ncollect >= 1 =>
              /\ at_collect.d._unsaved_event_list = <<>>
              /\ Len(collected) <= Len(returned)
              /\ \A i \in 1..Len(collected) :
                    \E j \in 1..Len(returned) : returned[j] = collected[i].version

C18_Witness ==
    /\ agg.cls = "Account" /\ nops = MaxOps
    /\ ncollect = 2 /\ collected = <<>> /\ Buffer = <<>>
    /\ Len(returned) = MaxOps

\* C19: after any operations and saves, saves that fail included, the events
\* a recorder holds for one originator_id have the versions 1..n, each once
\* (the caller neither collects the buffer itself nor writes to a recorder's
\* memory).
C19_StoredVersionsGapFree ==
    (ncollect = 0 /\ ~call.written) =>
    \A n \in DOMAIN memory : \A id \in DOMAIN memory[n] :
        /\ {memory[n][id][i].version : i \in DOMAIN memory[n][id]}
              = 1..Len(memory[n][id])
        /\ \A i \in DOMAIN memory[n][id] : memory[n][id][i].originator_id = id

\* C20: for any operations on a new aggregate, Application.save followed by
\* Application.get(id) returns an aggregate of the same id and the same
\* domain state (when a recorder of the application supports the type, the
\* class is the one registered under its name, and the caller neither
\* collects the buffer itself nor writes to a recorder's memory).
C20_SaveThenGetRoundTrip ==
    (/\ call.handler = "Application.get"
     /\ call.nsaves = 1 /\ ~call.failed
     /\ ncollect = 0 /\ ~call.written /\ Registers(call.live.cls)
     /\ call.live.d._unsaved_event_list = <<>>
     /\ \E n \in AppNames : Supports(n))
    => /\ call.result.kind = "aggregate"
       /\ call.aggregate.cls = call.live.cls
       /\ call.aggregate.d._id = call.live.d._id
       /\ call.aggregate.d.name = call.live.d.name
       /\ call.aggregate.d.balance = call.live.d.balance

\* the event a captured call left at the end of the buffer, if it left one
AppendedBy(p) ==
    LET before == p.self.d._unsaved_event_list
        after == p.result.self.d._unsaved_event_list
    IN  IF Len(after) = Len(before) + 1 /\ SubSeq(after, 1, Len(before)) = before
        THEN <<after[Len(after)]>> ELSE <<>>

\* C21 as stated: every call of an event-decorated operation appends exactly
\* one event at the end of the buffer, named by the decorator, with the
\* aggregate's id, whose payload is the call's bound parameters (defaults
\* included, receiver excluded).
C21_PayloadIsBoundParameters ==
    probe.op = "capture" =>
        /\ AppendedBy(probe) # <<>>
        /\ AppendedBy(probe)[1].name = probe.event_name
        /\ AppendedBy(probe)[1].originator_id = probe.self.d._id
        /\ AppendedBy(probe)[1].event_kwargs = probe.arg_dict

\* C21 amended: every call of an event-decorated operation appends exactly
\* one event at the end of the buffer, named by the decorator, with the
\* aggregate's id; its payload is the call's bound parameters without the
\* timestamp parameter, which becomes the event's timestamp (the current
\* time when the operation declares no timestamp).
C21_PayloadIsBoundParametersButTimestamp ==
    probe.op = "capture" =>
        /\ AppendedBy(probe) # <<>>
        /\ AppendedBy(probe)[1].name = probe.event_name
        /\ AppendedBy(probe)[1].originator_id = probe.self.d._id
        /\ AppendedBy(probe)[1].event_kwargs = DelKey(probe.arg_dict, "timestamp")
        /\ AppendedBy(probe)[1].timestamp =
              IF "timestamp" \in DOMAIN probe.arg_dict
              THEN probe.arg_dict.timestamp ELSE probe.now

C21_Witness ==
    /\ probe.op = "capture" /\ probe.event_name = "add"
    /\ Len(probe.self.d._unsaved_event_list) = MaxEvents
    /\ probe.arg_dict.timestamp = MaxTime /\ probe.now # MaxTime
    /\ Len(probe.result.self.d._unsaved_event_list) = MaxEvents + 1
    /\ probe.result.self.d._unsaved_event_list[MaxEvents + 1].event_kwargs
         = [amount |-> 1]

\* C24: when the body of an event-decorated operation raises, the aggregate
\* still has its version incremented by 1, its last-update timestamp set and
\* the event, carrying the new version, at the end of its unsaved buffer.
C24_BodyFailureKeepsEvent ==
    (probe.op = "capture" /\ probe.result.error = "Exception") =>
        /\ probe.result.self.d._version = probe.self.d._version + 1
        /\ probe.result.self.d._last_update_date = probe.arg_dict.timestamp
        /\ AppendedBy(probe) # <<>>
        /\ AppendedBy(probe)[1].version = probe.self.d._version + 1
        /\ AppendedBy(probe)[1].name = probe.event_name

C24_Witness ==
    /\ probe.op = "capture" /\ probe.result.error = "Exception"
    /\ probe.event_name = "add" /\ "balance" \notin DOMAIN probe.self.d
    /\ probe.result.self.d._version = 2
    /\ Len(probe.result.self.d._unsaved_event_list) = 2

\* C25: Event.mutate with no aggregate, when it returns, returns a fresh
\* instance of the event's type whose id is the event's originator_id and
\* whose version is the event's version, on which the registered constructor
\* function has run with the payload, and which has emitted no event: its
\* unsaved buffer is empty.  The class is left with the __init__ it had when
\* the call was made.
C25_MutateFromNoneConstructsSilently ==
    (probe.op = "mutate" /\ probe.aggregate = NoAggregate /\ probe.result.ok) =>
        /\ probe.result.aggregate.cls = class_registry[probe.ev.type_]
        /\ probe.result.aggregate.d._id = probe.ev.originator_id
        /\ probe.result.aggregate.d._version = probe.ev.version
        /\ probe.result.aggregate.d._unsaved_event_list = <<>>
        /\ probe.result.aggregate.d.name = probe.ev.event_kwargs.name
        /\ probe.result.aggregate.d.balance = 0
        /\ probe.result.class_init = probe.class_init

C25_Witness ==
    /\ probe.op = "mutate" /\ probe.aggregate = NoAggregate /\ probe.result.ok
    /\ probe.ev.name = "creation" /\ probe.ev.originator_id = MaxIds
    /\ probe.ev.version = MaxEvents
    /\ probe.result.aggregate.d._id = MaxIds
    /\ probe.result.aggregate.d._version = MaxEvents

\* how many times e occurs in list
Occurrences(list, e) == Cardinality({i \in DOMAIN list : list[i] = e})

\* list is in ascending order of Priority.get_key(Event)
Ascending(list, priority) ==
    \A i, j \in DOMAIN list :
        i < j => TupleLeq(get_key_event(priority, list[i]),
                          get_key_event(priority, list[j]))

\* C26: whatever the order of the input list, reconstruct with a priority
\* goes through the same events in ascending (version, timestamp) order
\* under version priority and in ascending (timestamp, version) order under
\* timestamp priority; the aggregate it returns has the version of the last
\* event in that order.
C26_AppliesInPriorityOrder ==
    (probe.op = "reconstruct" /\ probe.priority \in Priorities) =>
        /\ Ascending(probe.result.list_event, probe.priority)
        /\ \A e \in GivenEvents :
              Occurrences(probe.result.list_event, e) = Occurrences(probe.list_event, e)
        /\ probe.result.ok =>
              probe.result.aggregate.d._version =
                 probe.result.list_event[Len(probe.list_event)].version

C26_Witness ==
    /\ probe.op = "reconstruct" /\ probe.priority = "timestamp"
    /\ probe.aggregate = NoAggregate
    /\ Len(probe.list_event) = 2
    /\ probe.list_event[1].timestamp > probe.list_event[2].timestamp
    /\ probe.list_event[1].version < probe.list_event[2].version
    /\ probe.result.list_event = <<probe.list_event[2], probe.list_event[1]>>
    /\ probe.result.ok

\* C27: when reconstruct is called without a priority the events are sorted
\* by the reconstructor's default priority, and that default is
\* Priority.timestamp: they are gone through in ascending (timestamp, version)
\* order.
C27_DefaultPriorityIsTimestamp ==
    (probe.op = "reconstruct" /\ probe.priority = "None") =>
        Ascending(probe.result.list_event, "timestamp")

\* the key of Priority.get_key for the snapshot or event of version v
KeyOf(p, v) ==
    IF p.priority = "version" THEN <<v, StampOf(v, p.stamps)>>
                              ELSE <<StampOf(v, p.stamps), v>>

\* the stored snapshots within the bounds given (0: no bound given)
WithinBounds(p) ==
    { v \in p.snaps :
        /\ p.max_version = 0 \/ v <= p.max_version
        /\ p.max_timestamp = 0 \/ StampOf(v, p.stamps) <= p.max_timestamp }

\* the one of the versions vs that is maximal under the policy's key
MaximalOf(p, vs) == CHOOSE v \in vs : \A w \in vs : TupleLeq(KeyOf(p, w), KeyOf(p, v))

\* the stored events whose version and timestamp are both strictly greater
\* than those of the snapshot of version v
NewerThan(p, v) ==
    { e \in p.keep : e > v /\ StampOf(e, p.stamps) > StampOf(v, p.stamps) }

\* C28: EventAggregateMemory.get starts from the snapshot that is maximal
\* under the ordering policy's key among the stored snapshots with version <=
\* max_version and timestamp <= max_timestamp (for the bounds given): when no
\* stored event is newer than a snapshot, it returns that snapshot.
C28_StartsFromBestSnapshotWithinBounds ==
    (probe.op = "snapshots" /\ WithinBounds(probe) # {} /\ probe.keep = {1}) =>
        /\ probe.result.ok
        /\ probe.result.value =
              SnapshotAt(MaximalOf(probe, WithinBounds(probe)), probe.stamps)

\* C29: EventAggregateMemory.get applies a stored event onto the chosen
\* snapshot if and only if both its version and its timestamp are strictly
\* greater than the snapshot's: the balance returned is the snapshot's plus
\* one for each such add.
C29_AppliesStrictlyNewerEvents ==
    (probe.op = "snapshots" /\ WithinBounds(probe) # {}) =>
        /\ probe.result.ok
        /\ probe.result.value.d.balance =
              MaximalOf(probe, WithinBounds(probe)) - 1
              + Cardinality(NewerThan(probe, MaximalOf(probe, WithinBounds(probe))))

\* C30: EventAggregateMemory.get orders the events it applies by the policy
\* passed to get: the aggregate returned has the version of the applied event
\* that is last under that policy's key ((timestamp, version) with timestamp
\* priority), the event applied last.
C30_EventsOrderedByPolicyOfGet ==
    (/\ probe.op = "snapshots" /\ WithinBounds(probe) # {}
     /\ NewerThan(probe, MaximalOf(probe, WithinBounds(probe))) # {}) =>
        /\ probe.result.ok
        /\ probe.result.value.d._version =
              MaximalOf(probe, NewerThan(probe, MaximalOf(probe, WithinBounds(probe))))

\* what the adds of the callers ts leave of self when they run one after
\* the other, in any order
RECURSIVE SerialAdds(_, _)
SerialAdds(self, ts) ==
    IF ts = {} THEN {self}
    ELSE UNION { SerialAdds(LimitedOrderedDict_add(self, threads[t].key,
                                                   threads[t].value), ts \ {t}) :
                 t \in ts }

\* C22: when several callers call add on one LimitedOrderedDict
\* concurrently, the adds take effect as if serialized under one mutex: once
\* all have returned, none has raised and the dictionary (values, order and
\* size counter) is what the adds give when run one after the other in some
\* order.
C22_ConcurrentAddsSerialized ==
    /\ threads # NoThreads => \A t \in Callers : threads[t].pc # "dead"
    /\ (threads # NoThreads /\ \A t \in Callers : threads[t].pc = "done") =>
          /\ \A t \in Callers : threads[t].error = "None"
          /\ [lod.self EXCEPT !.data = Items(lod.self.data, lod.heap)]
                \in SerialAdds(lod.before, Callers)

\* C23: replay writes no process-wide state that a live construction reads:
\* a live construction of Account that interleaves with replay constructions
\* (Event.mutate with no aggregate) of the same type runs the real
\* constructor and emits its construction event, and once every caller has
\* returned the class has the __init__ it was defined with.
C23_ReplayLeavesLiveConstructionAlone ==
    threads # NoThreads =>
        /\ \A t \in Callers :
              (threads[t].role = "construct" /\ threads[t].pc = "done") =>
                  /\ threads[t].error = "None"
                  /\ threads[t].result.d._version = 1
                  /\ Len(threads[t].result.d._unsaved_event_list) = 1
                  /\ threads[t].result.d._unsaved_event_list[1].name = "creation"
        /\ (\A t \in Callers : threads[t].pc = "done") =>
              class_init = [c \in Classes |-> OriginalInit(c)]

\* the add that last touched a key: the values of SpecLod are the numbers of
\* the add calls, so it is the last value of the key's list
LastTouch(data, key) == ValuesOf(data, key)[Len(ValuesOf(data, key))]

\* C31: an add on a key that is already present makes that key the most
\* recently used.  Right after the add the key is the last in the order, and
\* it is still stored when another key was there to be evicted; later, an add
\* evicts it only when no key is left that was touched before it and is not
\* the key of this add.
C31_ReAddMakesMostRecent ==
    lod.nadds > 0 =>
        LET old == lod.before.data
            new == lod.self.data
        IN  /\ HasKey(old, lod.key) =>
                  /\ new # <<>> => new[Len(new)].key = lod.key
                  /\ KeysOf(old) # {lod.key} => HasKey(new, lod.key)
            /\ \A k \in KeysOf(old) : \A j \in KeysOf(old) \ {k, lod.key} :
                  (/\ Len(ValuesOf(old, k)) >= 2
                   /\ LastTouch(old, k) > LastTouch(old, j)
                   /\ ~HasKey(new, k)) => ~HasKey(new, j)

\* a key that was added again, two adds on other keys after its previous add,
\* is evicted by a later add
C31_Witness ==
    /\ lod.nadds > 0
    /\ \E k \in KeysOf(lod.before.data) :
          /\ Len(ValuesOf(lod.before.data, k)) >= 2
          /\ ~HasKey(lod.self.data, k)
          /\ LET v == ValuesOf(lod.before.data, k)
             IN  v[Len(v)] - v[Len(v) - 1] >= 3

\* C32: LimitedOrderedDict.get(key) returns the key's current value list, or
\* the caller's default when the key is absent (get hands back a value only,
\* so the stored lists, the order and the size counter stay as they are).
C32_GetReturnsListOrDefault ==
    probe.op = "lod_get" =>
        /\ probe.result.ok
        /\ probe.result.value =
              IF HasKey(probe.self.data, probe.key)
              THEN ListValue(ValuesOf(probe.self.data, probe.key))
              ELSE probe.default

\* C33: after any sequence of add and pop calls, current_size equals the
\* number of values stored over all keys.
C33_SizeCountsStoredValues ==
    lod.self.current_size = TotalValues(lod.self.data)

\* C34: an aggregate's last-update timestamp equals the timestamp of the most
\* recently applied event, after a live operation and after an event is
\* replayed onto it (or into a new instance) by Event.mutate.
C34_LastUpdateIsLastEventTimestamp ==
    /\ (probe.op = "capture" /\ probe.result.error = "None") =>
          /\ AppendedBy(probe) # <<>>
          /\ probe.result.self.d._last_update_date = AppendedBy(probe)[1].timestamp
    /\ (probe.op = "mutate" /\ probe.result.ok) =>
          /\ "_last_update_date" \in DOMAIN probe.result.aggregate.d
          /\ probe.result.aggregate.d._last_update_date = probe.ev.timestamp

\* C35: after Event.mutate with no aggregate has returned or raised, the
\* constructor of every aggregate class is the original one again: a later
\* live construction emits its construction event, and a later replay
\* construction emits none (stated for Account registered under its name,
\* the class whose constructor is an event).
C35_ConstructorRestoredAfterMutate ==
    (probe.op = "mutate" /\ probe.aggregate = NoAggregate /\ Registers("Account")) =>
        \E later \in {AggregateMeta_call("Account", probe.result.class_init["Account"],
                                         CtorArgs("Account"), 1, ImportTime)} :
        \E again \in {mutate(Event("creation", "Account", ImportTime, 1,
                                   CtorArgs("Account"), 1),
                             NoAggregate, probe.result.class_init)} :
            /\ probe.result.class_init = [c \in Classes |-> OriginalInit(c)]
            /\ later.ok
            /\ later.aggregate.d._version = 1
            /\ Len(later.aggregate.d._unsaved_event_list) = 1
            /\ later.aggregate.d._unsaved_event_list[1].name = "creation"
            /\ again.ok
            /\ again.aggregate.d._unsaved_event_list = <<>>

\* C36: when a save fails because a recorder's save raised, the events that
\* were being saved are still in the aggregate's unsaved buffer (so that a
\* later save hands them to the recorders again).  RecorderStore.save hands
\* the aggregate itself to the recorders: there the buffer is as it was unless
\* a recorder collected it.
C36_FailedSaveKeepsEvents ==
    (\E i \in CallsOf("save") : call.calls[i].out # "ok") =>
        /\ call.handler = "Application.save" => Buffer = call.before
        /\ call.handler = "RecorderStore.save" => Buffer \in {call.before, <<>>}

\* C37: EventAggregateMemory.get does not modify what is stored: the stored
\* snapshots keep their version and state, and two consecutive get calls with
\* the same arguments and no add in between return equal aggregates (stated
\* for the calls that have a snapshot within the bounds to start from).
C37_GetLeavesStoredAsItWas ==
    (probe.op = "get_twice" /\ WithinBounds(probe) # {}) =>
        /\ probe.after = probe.before
        /\ probe.first.ok /\ probe.second.ok
        /\ probe.second.value = probe.first.value

\* C38: in one RecorderStore.save call no recorder receives both commit and
\* rollback, each selected recorder receives save at most once, and commit is
\* never called after a rollback.
C38_CommitAndRollbackExclusive ==
    call.handler = "RecorderStore.save" =>
        /\ \A n \in NameSet : ~(Received(n, "commit") /\ Received(n, "rollback"))
        /\ \A i, j \in CallsOf("save") :
              call.calls[i].rec = call.calls[j].rec => i = j
        /\ \A i \in CallsOf("rollback"), j \in CallsOf("commit") : j < i

\* a save in which two recorders were handed the aggregate, the second one
\* raised and both received rollback
C38_Witness ==
    /\ call.handler = "RecorderStore.save"
    /\ Cardinality(CallsOf("save")) >= 2
    /\ Cardinality(CallsOf("rollback")) >= 2
    /\ CallsOf("commit") = {}

\* C39: collect changes only the unsaved buffer: the aggregate's class, id,
\* version and domain state are what they were, and the next operation after
\* a collect emits an event whose version is the previous version plus 1.
C39_CollectChangesOnlyBuffer ==
    [][/\ Collect =>
             /\ agg'.cls = agg.cls
             /\ DelKey(agg'.d, "_unsaved_event_list")
                   = DelKey(agg.d, "_unsaved_event_list")
       /\ (/\ ncollect >= 1 /\ Buffer = <<>>
           /\ \/ \E name \in {"add", "subtract"} : OperateAccount(name)
              \/ \E name \in {"deposit", "withdraw"} : OperatePlain(name)) =>
             /\ agg'.d._version = agg.d._version + 1
             /\ Len(agg'.d._unsaved_event_list) = 1
             /\ agg'.d._unsaved_event_list[1].version = agg.d._version + 1]_vars

\* an Account collected at version 2 on which one more operation has run
C39_Witness ==
    /\ agg.cls = "Account" /\ ncollect >= 1
    /\ at_collect.d._version = 2
    /\ Len(Buffer) = 1 /\ Buffer[1].version = 3
    /\ agg.d._version = 3

\* C40: with max_version = m (or max_timestamp = t) given, the aggregate that
\* EventAggregateMemory.get returns has version <= m (last-update timestamp
\* <= t): no event above the bound is applied (stated for the calls that have
\* a snapshot within the bounds to start from; 0 is no bound given).
C40_ReturnedWithinBounds ==
    (probe.op = "snapshots" /\ WithinBounds(probe) # {}) =>
        /\ probe.result.ok
        /\ probe.max_version # 0 =>
              probe.result.value.d._version <= probe.max_version
        /\ probe.max_timestamp # 0 =>
              probe.result.value.d._last_update_date <= probe.max_timestamp

====
